---- MODULE Spec2Model ----
(***************************************************************************)
(* State machine of the scope engine of sardonyxwt/state-store             *)
(* (src/src/index.ts, class ScopeImpl): action and macro registration,     *)
(* dispatch with its in-progress flag, context and event buffering, the    *)
(* listener fan-out with per-listener failure isolation, subscribe,        *)
(* unsubscribe, lock, reset and restore.                                   *)
(*                                                                         *)
(* dispatch is synchronous but calls user code (the action body, the       *)
(* listeners) that can call back into the scope, so one dispatch call is   *)
(* modelled as a call frame on `stack` that advances in steps: the call    *)
(* up to the invocation of the action, the action body, the commit, the    *)
(* delivery of the event to one listener at a time, the return.            *)
(*                                                                         *)
(* Spec is the free-standing scope.  StoreSpec is the registry of stores    *)
(* (createStore, class StoreImpl): createScope with the pending restored    *)
(* states, lock, reset and restore over the scopes a store owns.            *)
(* ComposeSpec is the earlier variant of the engine in the same file        *)
(* (lines 254-765: SyncScopeImpl, AsyncScopeImpl with its queue of deferred *)
(* actions, ComposeScopeImpl and composeScope); AsyncSpec is its part for   *)
(* dispatch alone, and FairAsyncSpec adds that promises settle and their    *)
(* handlers run.                                                            *)
(***************************************************************************)
EXTENDS Integers, Sequences, FiniteSets, TLC

----------------------------------------------------------------------------
(* Bounds of the model *)

MaxVal == 3

MaxActions == 2

MaxMacros == 1

MaxListeners == 2

MaxListenerIds == 2

\* Calls the application makes into the free-standing scope.
MaxCalls == 4

\* Calls the application makes into the registry, the stores and their scopes.
MaxStoreCalls == 6

\* Scope objects of the variant with composed scopes, the root scope included.
MaxScopes == 5

\* Listeners the application subscribes to the scopes of that variant.
MaxScopeListeners == 2

\* Calls of dispatch on the scopes of that variant, those a composed scope
\* makes on its members included.
MaxDispatches == 4

\* Calls the application makes into the scopes of that variant.
MaxComposeCalls == 3

----------------------------------------------------------------------------
(* JavaScript values: undefined, null, numbers, one non-empty string, and  *)
(* objects {value: v} that carry whether Object.freeze has been applied.   *)

Undefined == [kind |-> "undefined", v |-> 0, frozen |-> FALSE]

NullV == [kind |-> "null", v |-> 0, frozen |-> FALSE]

Num(n) == [kind |-> "number", v |-> n, frozen |-> FALSE]

Str == [kind |-> "string", v |-> 1, frozen |-> FALSE]

Obj(n, fr) == [kind |-> "object", v |-> n, frozen |-> fr]

\* No value: the marker of a history variable that holds nothing.
NotRestored == [kind |-> "none", v |-> 0, frozen |-> FALSE]

\* No value: the call was not one of an action dispatcher.
NotDispatcher == [kind |-> "none", v |-> 0, frozen |-> FALSE]

IsObject(x) == x.kind = "object"

IsNumber(x) == x.kind = "number"

\* typeof x
TypeOf(x) == IF x.kind \in {"null", "object"} THEN "object" ELSE x.kind

\* !!x
Truthy(x) ==
    \/ x.kind = "object"
    \/ x.kind = "string"
    \/ x.kind = "number" /\ x.v # 0

\* deepFreeze(obj): freezes the object graph in place; a primitive is
\* returned as it is.
deepFreeze(x) == IF IsObject(x) THEN [x EXCEPT !.frozen = TRUE] ELSE x

----------------------------------------------------------------------------
(* Names *)

RESET_SCOPE_ACTION == "_reset"

RESTORE_SCOPE_ACTION == "_restore"

\* Action names the application registers.  Each name stands for one action
\* body (see Body): increment, setCounter and noop are the actions of the
\* README and of the scenarios; compound calls scope.reset() in its body.
UserActions == {"increment", "setCounter", "noop", "compound"}

ActionNames == {RESET_SCOPE_ACTION, RESTORE_SCOPE_ACTION} \cup UserActions

\* Macro names the application registers: a fresh name, the name of the
\* subscription macro that registerAction("increment") creates, and the name
\* of an accessor that the class defines on its prototype.
MacroNames == {"remains", "onIncrement", "state"}

MacroTypes == {"FUNCTION", "GETTER", "SETTER"}

\* `on${actionName.charAt(0).toUpperCase() + actionName.slice(1)}`
subscriberMacroName(a) ==
    CASE a = "increment" -> "onIncrement"
      [] a = "setCounter" -> "onSetCounter"
      [] a = "noop" -> "onNoop"
      [] a = "compound" -> "onCompound"
      [] a = "_reset" -> "on_reset"
      [] a = "_restore" -> "on_restore"

MemberNames ==
    ActionNames \cup MacroNames \cup {subscriberMacroName(a) : a \in ActionNames}

\* What a property name denotes on the scope object:
\*   none        the name is not `in this`
\*   dispatcher  own data property holding an action dispatcher
\*   macro       own data property holding a FUNCTION macro
\*   submacro    own data property holding an on<Action> subscription macro
\*   getter, setter, getset   own accessor property installed by a macro
\*   proto       accessor inherited from the class prototype
MemberKinds ==
    {"none", "dispatcher", "macro", "submacro", "getter", "setter", "getset", "proto"}

----------------------------------------------------------------------------
(* Records *)

NoEvent == [actionName |-> "", props |-> Undefined, oldState |-> Undefined,
            newState |-> Undefined, hasParent |-> FALSE, childrenEvents |-> <<>>]

NoError == [type |-> "none", reason |-> "", oldState |-> Undefined,
            actionName |-> "", props |-> Undefined]

\* new Error(message)
PlainError(msg) == [type |-> "Error", reason |-> msg, oldState |-> Undefined,
                    actionName |-> "", props |-> Undefined]

\* How a call of the application ended: the method, the action or macro
\* name and the emitEvent it was given (for subscribe, the action names it
\* was given; for unsubscribe, the listener id; for a dispatch or a macro
\* call, the props; for registerMacro, the macro type),
\* and what it returned or
\* threw.  For a call of an action dispatcher, val is what this.dispatch
\* returned to the dispatcher and ret is what the dispatcher returned.
Result(op, name, emit, out, val, err) ==
    [op |-> op, name |-> name, names |-> {}, id |-> 0, props |-> Undefined,
     macroType |-> "", emit |-> emit, out |-> out, val |-> val, ret |-> NotDispatcher,
     err |-> err]

NoResult == Result("none", "", TRUE, "none", Undefined, NoError)

Returned(op, name, v) == Result(op, name, TRUE, "returned", v, NoError)

Threw(op, name, e) == Result(op, name, TRUE, "threw", Undefined, e)

\* One observation of the outside world during a call: a DevTool hook that
\* was invoked, a listener that was invoked (with the scope.state it could
\* read at that moment), a middleware wrapper that was entered.
Obs(k, name, id, ev, seen, err) ==
    [k |-> k, name |-> name, id |-> id, ev |-> ev, seen |-> seen, err |-> err]

\* storeDevTool.onChangeScope(this, {type, actionName | macroName})
ChangeObs(type, name) == Obs(type, name, 0, NoEvent, Undefined, NoError)

----------------------------------------------------------------------------
(* State *)

VARIABLES
    isImmutabilityEnabled,              \* fixed at construction
    isSubscribedMacroAutoCreateEnabled, \* fixed at construction
    middleware,         \* _middleware: the configured list, reversed
    state,              \* _state
    initState,          \* _initState
    isFrozen,           \* _isFrozen
    context,            \* _context
    contextEvent,       \* _contextEvent
    isActionInProgress, \* _isActionInProgress
    actions,            \* _actions: names in insertion order
    listeners,          \* _listeners: entries in insertion order
    listenerIndex,      \* counter of _listenerIdGenerator
    members,            \* property name -> what it denotes on the object
    stack,              \* frames of the dispatch calls in progress
    pending,            \* events the root call still has to deliver
    cursor,             \* id of the listener visited last in the fan-out
    lastResult,         \* how the application's last call ended
    trace,              \* observations during the application's last call
    fold,               \* history: the actions folded over the initial state
    incs,               \* history: successful dispatches, all "increment"
    tried,              \* history: the names registerAction was called with
    restored,           \* history: v when restore(v) was called and only reset() since
    calls,              \* number of calls the application has made
    stores,             \* the process-wide registry `stores` with its stores
    heap,               \* the scope objects of the sync/async/compose variant
    scopes,             \* the process-wide registry `scopes` of that variant
    dispatches          \* the dispatch calls made on those scopes

vars == <<isImmutabilityEnabled, isSubscribedMacroAutoCreateEnabled, middleware,
          state, initState, isFrozen, context, contextEvent, isActionInProgress,
          actions, listeners, listenerIndex, members, stack, pending, cursor,
          lastResult, trace, fold, incs, tried, restored, calls, stores,
          heap, scopes, dispatches>>

\* The variables of the variant with synchronous, asynchronous and composed
\* scopes: no call into a canonical scope or a store reads or writes them.
composeVars == <<heap, scopes, dispatches>>

configVars == <<isImmutabilityEnabled, isSubscribedMacroAutoCreateEnabled, middleware>>

registryVars == <<isFrozen, actions, members>>

listenerVars == <<listeners, listenerIndex>>

dispatchVars == <<state, initState, context, contextEvent, isActionInProgress,
                  stack, pending, cursor, fold, incs>>

----------------------------------------------------------------------------
(* Getters *)

isLocked == isFrozen

isActionDispatchAvailable == ~isActionInProgress

supportActions == actions

HasAction(a) == \E i \in 1..Len(actions) : actions[i] = a

\* `name in this`
InThis(n) == members[n] # "none"

\* True while no call into the scope is executing.
Idle == stack = <<>>

\* The application makes one more call into the scope.
AppCall ==
    /\ Idle
    /\ calls < MaxCalls
    /\ calls' = calls + 1
    /\ UNCHANGED <<stores, composeVars>>

----------------------------------------------------------------------------
(* Registration, as functions of the registry they change *)

Registry(acts, mem, notes, err) ==
    [actions |-> acts, members |-> mem, notes |-> notes, err |-> err]

\* typeof this[macroName] === 'function'.  Reading an accessor calls the
\* macro behind it, whose result in this model is a state value and never a
\* function.
isPresentMacroHasFunctionType(mem, n) == mem[n] \in {"dispatcher", "macro", "submacro"}

\* Object.getOwnPropertyDescriptor(this, macroName): undefined for a name
\* that is only inherited, so reading .get or .set of it is a TypeError.
HasOwnDescriptor(mem, n) == mem[n] \notin {"none", "proto"}

DescriptorGet(mem, n) == mem[n] \in {"getter", "getset"}

DescriptorSet(mem, n) == mem[n] \in {"setter", "getset"}

\* The property that the switch of registerMacro leaves under macroName.
\* Object.defineProperty on an existing accessor keeps the half that the new
\* descriptor does not name.
InstalledMember(old, macroType, fnKind) ==
    CASE macroType = "FUNCTION" -> fnKind
      [] macroType = "GETTER" -> IF old \in {"setter", "getset"} THEN "getset" ELSE "getter"
      [] macroType = "SETTER" -> IF old \in {"getter", "getset"} THEN "getset" ELSE "setter"

\* registerMacro(macroName, macro, macroType); macroGiven is !!macro and
\* fnKind tells a macro of the application from a subscription macro.
registerMacro(acts, mem, frozen, macroName, macroGiven, macroType, fnKind) ==
    IF ~macroGiven
    THEN Registry(acts, mem, <<>>, PlainError("Macro cannot be null or undefined."))
    ELSE IF frozen
    THEN Registry(acts, mem, <<>>, PlainError("This scope is locked you can't add new macro."))
    ELSE IF mem[macroName] # "none"
            /\ ~isPresentMacroHasFunctionType(mem, macroName)
            /\ macroType # "FUNCTION"
            /\ ~HasOwnDescriptor(mem, macroName)
    THEN Registry(acts, mem, <<>>, PlainError("TypeError"))
    ELSE IF mem[macroName] # "none"
            /\ (\/ isPresentMacroHasFunctionType(mem, macroName)
                \/ macroType = "FUNCTION"
                \/ macroType = "GETTER" /\ DescriptorGet(mem, macroName)
                \/ macroType = "SETTER" /\ DescriptorSet(mem, macroName))
    THEN Registry(acts, mem, <<>>, PlainError("Macro name is reserved in scope."))
    ELSE Registry(acts,
                  [mem EXCEPT ![macroName] = InstalledMember(mem[macroName], macroType, fnKind)],
                  <<ChangeObs("REGISTER_MACRO", macroName)>>,
                  NoError)

\* Variant: registerAction without the test of line 1245.
registerAction_unchecked(acts, mem, frozen, autoCreate, actionName) ==
    IF frozen
    THEN Registry(acts, mem, <<>>, PlainError("This scope is locked you can't add new action."))
    ELSE Registry(IF \E i \in 1..Len(acts) : acts[i] = actionName
                  THEN acts ELSE Append(acts, actionName),
                  [mem EXCEPT ![actionName] = "dispatcher"],
                  <<ChangeObs("REGISTER_ACTION", actionName)>>,
                  NoError)

\* registerAction(actionName, action, transformer)
registerAction(acts, mem, frozen, autoCreate, actionName) ==
    IF frozen
    THEN Registry(acts, mem, <<>>, PlainError("This scope is locked you can't add new action."))
    ELSE IF (\E i \in 1..Len(acts) : acts[i] = actionName)
            \/ (autoCreate /\ mem[actionName] # "none")
    THEN Registry(acts, mem, <<>>, PlainError("Action name is duplicate or reserved in scope."))
    ELSE LET stored == Append(acts, actionName)
             sub == registerMacro(stored, mem, frozen, subscriberMacroName(actionName),
                                  TRUE, "FUNCTION", "submacro")
         IN  IF autoCreate /\ sub.err # NoError
             THEN sub
             ELSE LET mem1 == IF autoCreate THEN sub.members ELSE mem
                      notes1 == IF autoCreate THEN sub.notes ELSE <<>>
                  IN  Registry(stored,
                               [mem1 EXCEPT ![actionName] = "dispatcher"],
                               Append(notes1, ChangeObs("REGISTER_ACTION", actionName)),
                               NoError)

\* The members of a ScopeImpl before its constructor registers anything.
ClassMembers == [n \in MemberNames |-> IF n = "state" THEN "proto" ELSE "none"]

\* The registry the constructor leaves: _reset and _restore registered (with
\* their subscription macros when those are enabled) before _isFrozen is set.
ConstructedRegistry(autoCreate) ==
    LET r1 == registerAction(<<>>, ClassMembers, FALSE, autoCreate, RESET_SCOPE_ACTION)
    IN  registerAction(r1.actions, r1.members, FALSE, autoCreate, RESTORE_SCOPE_ACTION)

----------------------------------------------------------------------------
(* Action bodies *)

SameObject(a, b) == IsObject(a) /\ IsObject(b) /\ a.v = b.v

\* Equality of two values as the application sees it (===), whatever has
\* been frozen in the meantime.
SameValue(a, b) == a.kind = b.kind /\ a.v = b.v

BodyResult(ok, val, init) == [ok |-> ok, val |-> val, init |-> init]

\* What the body registered under a name does when it is called with
\* (oldState, props) while _initState is init; nested is the outcome of the
\* scope.reset() call that the compound body made.
\*   _reset      () => this._initState
\*   _restore    (_, restoredState) => { this._initState = restoredState; return restoredState }
\*   increment   (s) => s + 1
\*   setCounter  (s, p) => { if (typeof p !== 'number') throw new Error(...); return p }
\*   noop        (s) => s
\*   compound    (s, p) => { scope.reset(); return p }
Body(actionName, oldState, props, init, nested) ==
    CASE actionName = RESET_SCOPE_ACTION -> BodyResult(TRUE, init, init)
      [] actionName = RESTORE_SCOPE_ACTION -> BodyResult(TRUE, props, props)
      [] actionName = "increment" -> BodyResult(TRUE, Num(oldState.v + 1), init)
      [] actionName = "setCounter" -> BodyResult(TypeOf(props) = "number", props, init)
      [] actionName = "noop" -> BodyResult(TRUE, oldState, init)
      [] actionName = "compound" -> BodyResult(nested = "returned", props, init)

\* The body calls back into the scope before it returns.
BodyDispatches(actionName) == actionName = "compound"

\* The props the application passes with each action.
PropsFor(actionName) ==
    CASE actionName = "increment" -> {Undefined}
      [] actionName = "setCounter" -> {Num(1), Str}
      [] actionName = "noop" -> {Undefined, Num(1), Obj(2, FALSE)}
      [] actionName = "compound" -> {Num(2)}

\* The application calls s + 1 on numbers below the bound only.
Callable(actionName, oldState) ==
    actionName = "increment" => (IsNumber(oldState) /\ oldState.v < MaxVal)

----------------------------------------------------------------------------
(* dispatch *)

\* Variant: a call that emits its event whatever emitEvent is.
Frame_emitting(actionName, props, emitEvent, isRootAction, oldState) ==
    [actionName |-> actionName, props |-> props, emitEvent |-> TRUE,
     isRootAction |-> isRootAction, oldState |-> oldState,
     nested |-> "none", phase |-> "body", newState |-> Undefined]

\* The parameters and locals of one call of dispatch.
Frame(actionName, props, emitEvent, isRootAction, oldState) ==
    [actionName |-> actionName, props |-> props, emitEvent |-> emitEvent,
     isRootAction |-> isRootAction, oldState |-> oldState,
     nested |-> "none", phase |-> "body", newState |-> Undefined]

Top == stack[Len(stack)]

Pop == SubSeq(stack, 1, Len(stack) - 1)

ReplaceTop(f) == [stack EXCEPT ![Len(stack)] = f]

\* Variant: the error reports the in-flight context instead of oldState.
buildScopeError_context(f, reason) ==
    [type |-> "ScopeError", reason |-> reason, oldState |-> context,
     actionName |-> f.actionName, props |-> f.props]

buildScopeError(f, reason) ==
    [type |-> "ScopeError", reason |-> reason, oldState |-> f.oldState,
     actionName |-> f.actionName, props |-> f.props]

\* Variant: the event is built with oldState and newState exchanged.
buildScopeEvent_swapped(f, newState) ==
    [actionName |-> f.actionName, props |-> f.props, oldState |-> newState,
     newState |-> f.oldState, hasParent |-> contextEvent # NoEvent,
     childrenEvents |-> <<>>]

buildScopeEvent(f, newState) ==
    [actionName |-> f.actionName, props |-> f.props, oldState |-> f.oldState,
     newState |-> newState, hasParent |-> contextEvent # NoEvent,
     childrenEvents |-> <<>>]

\* The wrappers in the order they are entered when the wrapped action is
\* called: each middleware wraps what the ones before it in _middleware
\* have built, so the last one applied is entered first.
RECURSIVE appendActionMiddleware(_, _)
appendActionMiddleware(mws, chain) ==
    IF mws = <<>> THEN chain
    ELSE appendActionMiddleware(Tail(mws), <<Head(mws)>> \o chain)

WrapperObs(chain) == [i \in 1..Len(chain) |-> Obs("middleware", "", chain[i], NoEvent, Undefined, NoError)]

\* The props the action receives (lines 1324-1326).
FrozenProps(props) ==
    IF isImmutabilityEnabled /\ Truthy(props) /\ TypeOf(props) = "object"
    THEN deepFreeze(props) ELSE props

\* Variant: the test of line 1338 inverted.
OldState_inverted(isRootAction) == IF isRootAction THEN context ELSE state

\* Line 1338: the state the action is called with.
OldState(isRootAction) == IF isRootAction THEN state ELSE context

\* Variant: dispatch without the guard of lines 1320-1322.
dispatch_unguarded(op, actionName, props, emitEvent, fromBody) ==
    LET isRootAction == ~isActionInProgress
        oldState == OldState(isRootAction)
        base == IF fromBody THEN trace ELSE <<>>
    IN  /\ IF ~HasAction(actionName)
           THEN /\ IF fromBody
                   THEN /\ stack' = ReplaceTop([Top EXCEPT !.nested = "threw"])
                        /\ UNCHANGED lastResult
                   ELSE /\ lastResult' = [Result(op, actionName, emitEvent, "threw", Undefined,
                                                 PlainError("This action not exists"))
                                              EXCEPT !.props = props]
                        /\ UNCHANGED stack
                /\ trace' = base
                /\ UNCHANGED isActionInProgress
           ELSE /\ isActionInProgress' = TRUE
                /\ stack' = Append(stack, Frame(actionName, FrozenProps(props), emitEvent,
                                                isRootAction, oldState))
                /\ trace' = base \o WrapperObs(appendActionMiddleware(middleware, <<>>))
                /\ IF fromBody
                   THEN UNCHANGED lastResult
                   ELSE lastResult' = [Result(op, actionName, emitEvent, "pending",
                                              Undefined, NoError) EXCEPT !.props = props]
        /\ UNCHANGED <<configVars, registryVars, listenerVars, state, initState,
                       context, contextEvent, pending, cursor, fold, incs>>

\* dispatch(actionName, props, emitEvent) up to the call of the action
\* (lines 1313-1338 and 1405-1406).  A call of the application starts a new
\* trace; a call from an action body reports a throw to that body.
dispatch(op, actionName, props, emitEvent, fromBody) ==
    LET isRootAction == ~isActionInProgress
        oldState == OldState(isRootAction)
        base == IF fromBody THEN trace ELSE <<>>
        fail(msg) ==
            /\ IF fromBody
               THEN /\ stack' = ReplaceTop([Top EXCEPT !.nested = "threw"])
                    /\ UNCHANGED lastResult
               ELSE /\ lastResult' = [Result(op, actionName, emitEvent, "threw", Undefined,
                                             PlainError(msg)) EXCEPT !.props = props]
                    /\ UNCHANGED stack
            /\ trace' = base
            /\ UNCHANGED isActionInProgress
    IN  /\ IF ~HasAction(actionName)
           THEN fail("This action not exists")
           ELSE IF isActionInProgress
           THEN fail("Now action dispatch not available. Other action spreads.")
           ELSE /\ isActionInProgress' = (IF isRootAction THEN TRUE ELSE isActionInProgress)
                /\ stack' = Append(stack, Frame(actionName, FrozenProps(props), emitEvent,
                                                isRootAction, oldState))
                /\ trace' = base \o WrapperObs(appendActionMiddleware(middleware, <<>>))
                /\ IF fromBody
                   THEN UNCHANGED lastResult
                   ELSE lastResult' = [Result(op, actionName, emitEvent, "pending",
                                              Undefined, NoError) EXCEPT !.props = props]
        /\ UNCHANGED <<configVars, registryVars, listenerVars, state, initState,
                       context, contextEvent, pending, cursor, fold, incs>>

\* scope.dispatch(actionName, props, emitEvent) called by the application.
Dispatch(actionName, props, emitEvent) ==
    /\ AppCall
    /\ UNCHANGED tried
    /\ restored' = NotRestored
    /\ Callable(actionName, state)
    /\ dispatch("dispatch", actionName, props, emitEvent, FALSE)

\* The dispatcher that registerAction(actionName, ...) returned and stored
\* as this[actionName] is called with (props, emitEvent): lines 1250-1251.
ActionDispatcher(actionName, props, emitEvent) ==
    /\ AppCall
    /\ UNCHANGED tried
    /\ restored' = NotRestored
    /\ members[actionName] = "dispatcher"
    /\ Callable(actionName, state)
    /\ dispatch("dispatcher", actionName, props, emitEvent, FALSE)

\* scope.reset(emitEvent)
Reset(emitEvent) ==
    /\ AppCall
    /\ UNCHANGED <<tried, restored>>
    /\ dispatch("reset", RESET_SCOPE_ACTION, NullV, emitEvent, FALSE)

\* scope.restore(restoredState, emitEvent)
Restore(restoredState, emitEvent) ==
    /\ AppCall
    /\ UNCHANGED tried
    /\ restored' = restoredState
    /\ dispatch("restore", RESTORE_SCOPE_ACTION, restoredState, emitEvent, FALSE)

\* The body of the action on top of the stack calls scope.reset().
BodyDispatch ==
    /\ ~Idle
    /\ UNCHANGED <<calls, tried, restored, stores, composeVars>>
    /\ Top.phase = "body"
    /\ BodyDispatches(Top.actionName)
    /\ Top.nested = "none"
    /\ dispatch("reset", RESET_SCOPE_ACTION, NullV, TRUE, TRUE)

\* Line 1360: the new state is frozen when the PROPS are of type object.
FrozenState(f, newState) ==
    IF isImmutabilityEnabled /\ Truthy(newState) /\ TypeOf(f.props) = "object"
    THEN deepFreeze(newState) ELSE newState

\* deepFreeze works in place: a field that holds the object just frozen
\* holds a frozen object from then on.
Aliased(held, raw, frozenNow) ==
    IF frozenNow # raw /\ SameObject(held, raw) THEN deepFreeze(held) ELSE held

\* The history of the successful dispatches, for the claims about sequences.
Folded(f) ==
    LET r == Body(f.actionName, fold.s, f.props, fold.init, "returned")
    IN  [s |-> r.val, init |-> r.init]

\* The transformer an action is registered with: setCounter with the one
\* of the README, the other actions with none.
HasTransformer(actionName) == actionName = "setCounter"

\* (actionResult, props) => actionResult + props + 10000
transformer(actionResult, props) == Num(actionResult.v + props.v + 10000)

\* Variant: the dispatcher hands the result of dispatch back as it is.
actionDispatcher_untransformed(actionName, dispatchResult, props) == dispatchResult

\* Line 1252: what the action dispatcher returns once this.dispatch has
\* returned dispatchResult.
actionDispatcher(actionName, dispatchResult, props) ==
    IF HasTransformer(actionName) THEN transformer(dispatchResult, props) ELSE dispatchResult

\* Variant: the root call returns without clearing its context.
FinishRoot_contextKept(f, newState) ==
    /\ context' = newState
    /\ contextEvent' = NoEvent
    /\ isActionInProgress' = FALSE
    /\ stack' = Pop
    /\ lastResult' = [lastResult EXCEPT
                          !.out = "returned",
                          !.val = newState,
                          !.ret = IF lastResult.op = "dispatcher"
                                  THEN actionDispatcher(f.actionName, newState, f.props)
                                  ELSE NotDispatcher]
    /\ fold' = Folded(f)
    /\ incs' = IF incs >= 0 /\ f.actionName = "increment" THEN incs + 1 ELSE -1

\* Lines 1389-1394: the root call clears its context and returns newState;
\* when an action dispatcher made the call, line 1252 follows.
FinishRoot(f, newState) ==
    /\ context' = NullV
    /\ contextEvent' = NoEvent
    /\ isActionInProgress' = FALSE
    /\ stack' = Pop
    /\ lastResult' = [lastResult EXCEPT
                          !.out = "returned",
                          !.val = newState,
                          !.ret = IF lastResult.op = "dispatcher"
                                  THEN actionDispatcher(f.actionName, newState, f.props)
                                  ELSE NotDispatcher]
    /\ fold' = Folded(f)
    /\ incs' = IF incs >= 0 /\ f.actionName = "increment" THEN incs + 1 ELSE -1

\* Variant: onRejected that does not tell the DevTool.
Rejected_unreported(f, reason) ==
    LET error == buildScopeError(f, reason)
    IN  /\ trace' = trace
        /\ IF Len(stack) = 1
           THEN /\ stack' = Pop
                /\ lastResult' = [lastResult EXCEPT !.out = "threw", !.err = error]
           ELSE /\ stack' = [Pop EXCEPT ![Len(stack) - 1].nested = "threw"]
                /\ UNCHANGED lastResult

\* onRejected and the throw of line 1408: the Scope Error goes to the
\* DevTool (root call only) and to the caller.  Nothing else is touched.
Rejected(f, reason) ==
    LET error == buildScopeError(f, reason)
    IN  /\ trace' = IF f.isRootAction
                    THEN Append(trace, Obs("onActionError", f.actionName, 0, NoEvent, Undefined, error))
                    ELSE trace
        /\ IF Len(stack) = 1
           THEN /\ stack' = Pop
                /\ lastResult' = [lastResult EXCEPT !.out = "threw", !.err = error]
           ELSE /\ stack' = [Pop EXCEPT ![Len(stack) - 1].nested = "threw"]
                /\ UNCHANGED lastResult

\* Variant: the hook is called without the event.
OnActionObs_withoutEvent(ev) == Obs("onAction", ev.actionName, 0, NoEvent, Undefined, NoError)

\* storeDevTool.onAction(event), the first statement of dispatchEvent.
OnActionObs(ev) == Obs("onAction", ev.actionName, 0, ev, Undefined, NoError)

\* The action body returns and onFulfilled runs up to the delivery of the
\* first event (lines 1359-1387), or to the end when there is no event.
BodyReturn ==
    /\ ~Idle
    /\ UNCHANGED <<calls, tried, restored, stores, composeVars>>
    /\ Top.phase = "body"
    /\ BodyDispatches(Top.actionName) => Top.nested # "none"
    /\ LET f == Top
           r == Body(f.actionName, f.oldState, f.props, initState, f.nested)
           newState == FrozenState(f, r.val)
           event == buildScopeEvent(f, newState)
       IN  /\ r.ok
           /\ initState' = Aliased(r.init, r.val, newState)
           /\ IF f.isRootAction
              THEN LET ce == IF f.emitEvent THEN event ELSE contextEvent
                   IN  /\ state' = newState
                       /\ IF ce # NoEvent
                          THEN /\ context' = newState
                               /\ contextEvent' = ce
                               /\ pending' = Append(ce.childrenEvents, ce)
                               /\ cursor' = 0
                               /\ trace' = Append(trace, OnActionObs(Head(Append(ce.childrenEvents, ce))))
                               /\ stack' = ReplaceTop([f EXCEPT !.phase = "fanout", !.newState = newState])
                               /\ UNCHANGED <<isActionInProgress, lastResult, fold, incs>>
                          ELSE /\ FinishRoot(f, newState)
                               /\ UNCHANGED <<pending, cursor, trace>>
              ELSE /\ context' = newState
                   /\ IF f.emitEvent /\ contextEvent = NoEvent
                      THEN \* this._contextEvent is null: TypeError inside the try
                           /\ Rejected(f, "TypeError")
                           /\ UNCHANGED contextEvent
                      ELSE /\ contextEvent' =
                                IF f.emitEvent
                                THEN [contextEvent EXCEPT !.childrenEvents = Append(@, event)]
                                ELSE contextEvent
                           /\ stack' = [Pop EXCEPT ![Len(stack) - 1].nested = "returned"]
                           /\ UNCHANGED <<lastResult, trace>>
                   /\ UNCHANGED <<state, isActionInProgress, pending, cursor, fold, incs>>
    /\ UNCHANGED <<configVars, registryVars, listenerVars>>

\* What the body threw.
ThrownReason(f) ==
    IF BodyDispatches(f.actionName)
    THEN "Now action dispatch not available. Other action spreads."
    ELSE "Props is not number"

\* The action body throws: catch, onRejected, throw (lines 1397-1409).
BodyThrow ==
    /\ ~Idle
    /\ UNCHANGED <<calls, tried, restored, stores, composeVars>>
    /\ Top.phase = "body"
    /\ BodyDispatches(Top.actionName) => Top.nested # "none"
    /\ ~Body(Top.actionName, Top.oldState, Top.props, initState, Top.nested).ok
    /\ Rejected(Top, ThrownReason(Top))
    /\ UNCHANGED <<configVars, registryVars, listenerVars, state, initState, context,
                   contextEvent, isActionInProgress, pending, cursor, fold, incs>>

----------------------------------------------------------------------------
(* Delivery of an event: dispatchEvent, lines 1372-1381 *)

Listener(id, actionNames) == [id |-> id, actionNames |-> actionNames]

\* Map.forEach visits the entries in insertion order, which is the order of
\* the generated ids: the next entry is the first one after the last visited.
Unvisited == {i \in 1..Len(listeners) : listeners[i].id > cursor}

NextListener == listeners[CHOOSE i \in Unvisited : \A j \in Unvisited : i <= j]

\* Variant: every stored listener receives every event.
Accepts_unfiltered(l, ev) == TRUE

\* The test of accurateListener; a listener subscribed without action names
\* is stored unwrapped and receives every event.
Accepts(l, ev) == l.actionNames = {} \/ ev.actionName \in l.actionNames

\* Variant: without the catch, what a listener throws ends forEach.
Visited_uncaught(l, thrown) == IF thrown THEN MaxListenerIds + 1 ELSE l.id

\* The catch of line 1377 keeps forEach going: after a listener, thrown or
\* not, the iteration stands right behind that listener.
Visited(l, thrown) == l.id

\* One iteration of this._listeners.forEach: the stored listener is called
\* inside try/catch; what it throws goes to onActionListenerError.  Whether
\* the listener of the application returns or throws is its own choice.
DeliverToListener(throws) ==
    /\ ~Idle
    /\ UNCHANGED <<calls, tried, restored, stores, composeVars>>
    /\ Top.phase = "fanout"
    /\ Unvisited # {}
    /\ LET l == NextListener
           ev == Head(pending)
           called == IF Accepts(l, ev)
                     THEN <<Obs("listener", ev.actionName, l.id, ev, state, NoError)>>
                     ELSE <<>>
           caught == IF Accepts(l, ev) /\ throws
                     THEN <<Obs("onActionListenerError", ev.actionName, l.id, ev, Undefined,
                                buildScopeError(Top, "listener"))>>
                     ELSE <<>>
       IN  /\ throws => Accepts(l, ev)
           /\ trace' = trace \o called \o caught
           /\ cursor' = Visited(l, throws)
    /\ UNCHANGED <<configVars, registryVars, listenerVars, state, initState, context,
                   contextEvent, isActionInProgress, stack, pending, lastResult, fold, incs>>

\* Lines 1314-1322: the message of the Error that dispatch(actionName)
\* throws before it calls the action, "" when it throws none.
dispatchGuard(actionName) ==
    IF ~HasAction(actionName) THEN "This action not exists"
    ELSE IF isActionInProgress THEN "Now action dispatch not available. Other action spreads."
    ELSE ""

\* Variant: the dispatch of the listener is carried out and commits props.
ListenerDispatch_committing(actionName, props) ==
    /\ ~Idle
    /\ UNCHANGED <<calls, tried, restored, stores, composeVars>>
    /\ Top.phase = "fanout"
    /\ Unvisited # {}
    /\ Accepts(NextListener, Head(pending))
    /\ dispatchGuard(actionName) # ""
    /\ LET l == NextListener
           ev == Head(pending)
       IN  /\ trace' = trace \o
                    <<Obs("listener", ev.actionName, l.id, ev, state, NoError),
                      Obs("onActionListenerError", ev.actionName, l.id, ev, Undefined,
                          buildScopeError(Top, dispatchGuard(actionName)))>>
           /\ cursor' = Visited(l, TRUE)
    /\ state' = props
    /\ UNCHANGED <<configVars, registryVars, listenerVars, initState, context,
                   contextEvent, isActionInProgress, stack, pending, lastResult, fold, incs>>

\* One iteration of this._listeners.forEach in which the listener calls
\* scope.dispatch(actionName, props) on the scope that is calling it and
\* lets what dispatch throws go: the Error of lines 1316-1322 leaves the
\* listener and is caught at line 1377.  The dispatch is turned away
\* before it has written anything.
ListenerDispatch(actionName, props) ==
    /\ ~Idle
    /\ UNCHANGED <<calls, tried, restored, stores, composeVars>>
    /\ Top.phase = "fanout"
    /\ Unvisited # {}
    /\ Accepts(NextListener, Head(pending))
    /\ dispatchGuard(actionName) # ""
    /\ LET l == NextListener
           ev == Head(pending)
       IN  /\ trace' = trace \o
                    <<Obs("listener", ev.actionName, l.id, ev, state, NoError),
                      Obs("onActionListenerError", ev.actionName, l.id, ev, Undefined,
                          buildScopeError(Top, dispatchGuard(actionName)))>>
           /\ cursor' = Visited(l, TRUE)
    /\ UNCHANGED <<configVars, registryVars, listenerVars, state, initState, context,
                   contextEvent, isActionInProgress, stack, pending, lastResult, fold, incs>>

\* forEach is over for the current event: dispatchEvent goes on with the
\* next buffered event, or the root call ends (lines 1386-1394).
EventDelivered ==
    /\ ~Idle
    /\ UNCHANGED <<calls, tried, restored, stores, composeVars>>
    /\ Top.phase = "fanout"
    /\ Unvisited = {}
    /\ IF Len(pending) > 1
       THEN /\ pending' = Tail(pending)
            /\ cursor' = 0
            /\ trace' = Append(trace, OnActionObs(pending[2]))
            /\ UNCHANGED <<context, contextEvent, isActionInProgress, stack, lastResult,
                           fold, incs>>
       ELSE /\ pending' = <<>>
            /\ cursor' = 0
            /\ FinishRoot(Top, Top.newState)
            /\ UNCHANGED trace
    /\ UNCHANGED <<configVars, registryVars, listenerVars, state, initState>>

----------------------------------------------------------------------------
(* The other calls of the application *)

\* scope.registerAction(actionName, action)
RegisterAction(actionName) ==
    /\ AppCall
    /\ restored' = NotRestored
    /\ LET r == registerAction(actions, members, isFrozen,
                               isSubscribedMacroAutoCreateEnabled, actionName)
       IN  /\ Len(r.actions) <= 2 + MaxActions
           /\ actions' = r.actions
           /\ members' = r.members
           /\ tried' = tried \cup {actionName}
           /\ trace' = r.notes
           /\ lastResult' = IF r.err = NoError
                            THEN Returned("registerAction", actionName, Undefined)
                            ELSE Threw("registerAction", actionName, r.err)
    /\ UNCHANGED <<configVars, isFrozen, listenerVars, dispatchVars>>

\* The macros the application has installed, an accessor pair counting twice.
MacroCount(mem) ==
    Cardinality({n \in MacroNames : mem[n] \in {"macro", "getter", "setter", "getset"}})
    + Cardinality({n \in MacroNames : mem[n] = "getset"})

\* scope.registerMacro(macroName, macro, macroType)
RegisterMacro(macroName, macroGiven, macroType) ==
    /\ AppCall
    /\ UNCHANGED tried
    /\ restored' = NotRestored
    /\ LET r == registerMacro(actions, members, isFrozen, macroName, macroGiven,
                              macroType, "macro")
       IN  /\ MacroCount(r.members) <= MaxMacros
           /\ members' = r.members
           /\ trace' = r.notes
           /\ lastResult' = [IF r.err = NoError
                             THEN Returned("registerMacro", macroName, Undefined)
                             ELSE Threw("registerMacro", macroName, r.err)
                                EXCEPT !.macroType = macroType]
    /\ UNCHANGED <<configVars, isFrozen, actions, listenerVars, dispatchVars>>

\* Variant: subscribe without the test of lines 1413-1417.
subscribe_unchecked(op, actionNames) ==
    /\ Len(listeners) < MaxListeners
    /\ listenerIndex < MaxListenerIds
    /\ listenerIndex' = listenerIndex + 1
    /\ listeners' = Append(listeners, Listener(listenerIndex + 1, actionNames))
    /\ lastResult' = [Returned(op, "", Num(listenerIndex + 1))
                          EXCEPT !.names = actionNames]

\* subscribe(listener, actionNames), lines 1412-1434
subscribe(op, actionNames) ==
    IF \E a \in actionNames : ~HasAction(a)
    THEN /\ lastResult' = [Threw(op, "", PlainError("Action not present in scope."))
                               EXCEPT !.names = actionNames]
         /\ UNCHANGED listenerVars
    ELSE /\ Len(listeners) < MaxListeners
         /\ listenerIndex < MaxListenerIds
         /\ listenerIndex' = listenerIndex + 1
         /\ listeners' = Append(listeners, Listener(listenerIndex + 1, actionNames))
         /\ lastResult' = [Returned(op, "", Num(listenerIndex + 1))
                               EXCEPT !.names = actionNames]

\* scope.subscribe(listener, actionNames)
Subscribe(actionNames) ==
    /\ AppCall
    /\ UNCHANGED tried
    /\ restored' = NotRestored
    /\ subscribe("subscribe", actionNames)
    /\ trace' = <<>>
    /\ UNCHANGED <<configVars, registryVars, dispatchVars>>

\* The macros of the application: the one of the README,
\*   remains  (state, props) => { const r = props - state; return r < 0 ? 0 : r }
\* on a counter, and (state) => state on any other state.
macro(st, props) ==
    IF IsNumber(st) /\ IsNumber(props)
    THEN Num(IF props.v - st.v < 0 THEN 0 ELSE props.v - st.v)
    ELSE st

\* Variant: the macro is bound to the state the scope was constructed with.
macroFunc_bound(props) == macro(initState, props)

\* macroFunc, lines 1295-1297: the macro gets the state of the moment.
macroFunc(props) == macro(state, props)

\* The props of a macro call: none when a getter is read.
MacroProps(kind) ==
    CASE kind = "getter" -> {Undefined}
      [] kind = "getset" -> {Undefined, Num(2)}
      [] OTHER -> {Num(2)}

\* Variant: macroFunc stores what the macro returns as the state.
InvokeMacro_assigns(macroName, props) ==
    /\ AppCall
    /\ UNCHANGED tried
    /\ restored' = NotRestored
    /\ members[macroName] \in {"macro", "getter", "setter", "getset"}
    /\ props \in MacroProps(members[macroName])
    /\ state' = macroFunc(props)
    /\ lastResult' = [Returned("macro", macroName, macroFunc(props)) EXCEPT !.props = props]
    /\ trace' = <<>>
    /\ UNCHANGED <<configVars, registryVars, listenerVars, initState, context, contextEvent,
                   isActionInProgress, stack, pending, cursor, fold, incs>>

\* A macro of the application is called, read or assigned.
InvokeMacro(macroName, props) ==
    /\ AppCall
    /\ UNCHANGED tried
    /\ restored' = NotRestored
    /\ members[macroName] \in {"macro", "getter", "setter", "getset"}
    /\ props \in MacroProps(members[macroName])
    /\ lastResult' = [Returned("macro", macroName, macroFunc(props)) EXCEPT !.props = props]
    /\ trace' = <<>>
    /\ UNCHANGED <<configVars, registryVars, listenerVars, dispatchVars>>

\* The subscription macro on<ActionName> is called with a listener:
\* this.subscribe(listener, [actionName]), lines 1262-1264.
InvokeSubscriberMacro(actionName) ==
    /\ AppCall
    /\ UNCHANGED tried
    /\ restored' = NotRestored
    /\ members[subscriberMacroName(actionName)] = "submacro"
    /\ subscribe("submacro", {actionName})
    /\ trace' = <<>>
    /\ UNCHANGED <<configVars, registryVars, dispatchVars>>

RemoveListener(id) == SelectSeq(listeners, LAMBDA l : l.id # id)

\* Variant: the listeners kept in a plain object, where `delete obj[id]`
\* is true whether or not the property was there.
unsubscribe_delete(op, id) ==
    /\ listeners' = RemoveListener(id)
    /\ lastResult' = [Returned(op, "", Num(1)) EXCEPT !.id = id]

\* unsubscribe(id), lines 1436-1438: Map.delete tells whether the entry
\* was there (1 stands for true, 0 for false).
unsubscribe(op, id) ==
    /\ listeners' = RemoveListener(id)
    /\ lastResult' = [Returned(op, "",
                                IF \E i \in 1..Len(listeners) : listeners[i].id = id
                                THEN Num(1) ELSE Num(0))
                          EXCEPT !.id = id]

\* scope.unsubscribe(id)
Unsubscribe(id) ==
    /\ AppCall
    /\ UNCHANGED tried
    /\ restored' = NotRestored
    /\ unsubscribe("unsubscribe", id)
    /\ trace' = <<>>
    /\ UNCHANGED <<configVars, registryVars, listenerIndex, dispatchVars>>

\* The callable that subscribe returned with listenerId = id is called:
\* () => this.unsubscribe(listenerId), line 1433.  Such a callable exists
\* for every id the generator has handed out.
UnsubscribeCallback(id) ==
    /\ AppCall
    /\ UNCHANGED tried
    /\ restored' = NotRestored
    /\ id <= listenerIndex
    /\ unsubscribe("unsubscribeCallback", id)
    /\ trace' = <<>>
    /\ UNCHANGED <<configVars, registryVars, listenerIndex, dispatchVars>>

\* Variant: lock() flips the flag, so a second call unlocks the scope.
Lock_toggles ==
    /\ AppCall
    /\ UNCHANGED tried
    /\ restored' = NotRestored
    /\ isFrozen' = ~isFrozen
    /\ trace' = <<ChangeObs("LOCK", "")>>
    /\ lastResult' = Returned("lock", "", Undefined)
    /\ UNCHANGED <<configVars, actions, members, listenerVars, dispatchVars>>

\* scope.lock()
Lock ==
    /\ AppCall
    /\ UNCHANGED tried
    /\ restored' = NotRestored
    /\ isFrozen' = TRUE
    /\ trace' = <<ChangeObs("LOCK", "")>>
    /\ lastResult' = Returned("lock", "", Undefined)
    /\ UNCHANGED <<configVars, actions, members, listenerVars, dispatchVars>>

----------------------------------------------------------------------------
(* Stores: class StoreImpl and the process-wide registry `stores`          *)
(* (lines 1162 and 1456-1587).  A store owns its scopes; each owned scope   *)
(* is a record of the fields of ScopeImpl, and a call into an owned scope   *)
(* is taken as one step: the actions of these scopes (the builtin ones and  *)
(* setCounter) and their listeners do not call back into the engine.        *)

StoreNames == {"CounterStore", "TestStore"}

\* The names the application gives to scopes; "" stands for a config
\* without a name.
ScopeNames == {"counter", "settings"}

\* this._scopeNameGenerator(): `${prefix}:${uuid}:${++index}`
GeneratedName(index) == "Scope:uuid:" \o ToString(index)

\* How a call into the registry or into a store ended, with what it was
\* called with.
StoreResult(op, store, config, use, states, out, err) ==
    [op |-> op, store |-> store, config |-> config, use |-> use, states |-> states,
     out |-> out, err |-> err]

\* A scope config {name, initState, isFrozen}; the other options are left
\* to their defaults.
ScopeConfig(name, init, frozen) == [name |-> name, initState |-> init, isFrozen |-> frozen]

NoConfig == ScopeConfig("", Undefined, FALSE)

NoStoreResult == StoreResult("none", "", NoConfig, FALSE, <<>>, "none", NoError)

\* new ScopeImpl(store, config): the fields after the constructor.
ScopeImpl(name, init, frozen) ==
    [name |-> name, state |-> init, initState |-> init, isFrozen |-> frozen,
     isActionInProgress |-> FALSE,
     actions |-> ConstructedRegistry(FALSE).actions,
     members |-> ConstructedRegistry(FALSE).members,
     listeners |-> <<>>, listenerIndex |-> 0]

\* new StoreImpl({name, isFrozen})
StoreImpl(name, frozen) ==
    [name |-> name, isFrozen |-> frozen, scopes |-> <<>>, statesToRestore |-> <<>>,
     scopeNameIndex |-> 0]

\* isStoreExist(storeName)
isStoreExist(storeName) == \E i \in 1..Len(stores) : stores[i].name = storeName

\* The place of a store in the registry.
StoreAt(storeName) == CHOOSE i \in 1..Len(stores) : stores[i].name = storeName

\* getStore(storeName)
getStore(storeName) == stores[StoreAt(storeName)]

\* Variant: the store never finds a scope under a name.
hasScope_never(st, scopeName) == FALSE

\* hasScope(scopeName): this._scopes.has(scopeName)
hasScope(st, scopeName) == \E i \in 1..Len(st.scopes) : st.scopes[i].name = scopeName

ScopeAt(st, scopeName) == CHOOSE i \in 1..Len(st.scopes) : st.scopes[i].name = scopeName

\* getScope(scopeName)
getScope(st, scopeName) == st.scopes[ScopeAt(st, scopeName)]

\* this._statesToRestore.has(name), .get(name), .set(name, state)
PendingHas(st, name) ==
    \E i \in 1..Len(st.statesToRestore) : st.statesToRestore[i].name = name

PendingGet(st, name) ==
    st.statesToRestore[CHOOSE i \in 1..Len(st.statesToRestore) :
                            st.statesToRestore[i].name = name].state

PendingSet(st, name, v) ==
    IF PendingHas(st, name)
    THEN [i \in 1..Len(st.statesToRestore) |->
            IF st.statesToRestore[i].name = name
            THEN [name |-> name, state |-> v] ELSE st.statesToRestore[i]]
    ELSE Append(st.statesToRestore, [name |-> name, state |-> v])

\* Variant: the pending state stays in the set after it was used.
statesToRestoreAfter_kept(st, name, useRestoredState) == st.statesToRestore

\* Lines 1506-1508: a pending state that is used is deleted.
statesToRestoreAfter(st, name, useRestoredState) ==
    IF useRestoredState
    THEN SelectSeq(st.statesToRestore, LAMBDA e : e.name # name)
    ELSE st.statesToRestore

Outcome(subject, out, err) == [subject |-> subject, out |-> out, err |-> err]

\* createScope(config, useRestoredStateIfAvailable), lines 1484-1527
createScope(st, config, useRestoredStateIfAvailable) ==
    IF st.isFrozen
    THEN Outcome(st, "threw", PlainError("This Store is locked you can't add new scope."))
    ELSE LET index == IF config.name = "" THEN st.scopeNameIndex + 1 ELSE st.scopeNameIndex
             name == IF config.name = "" THEN GeneratedName(index) ELSE config.name
             st1 == [st EXCEPT !.scopeNameIndex = index]
             useRestoredState == useRestoredStateIfAvailable /\ PendingHas(st, name)
             state0 == IF useRestoredState THEN PendingGet(st, name) ELSE config.initState
         IN  IF hasScope(st, name)
             THEN Outcome(st1, "threw", PlainError("Scope name must unique"))
             ELSE Outcome([st1 EXCEPT
                              !.statesToRestore = statesToRestoreAfter(st, name, useRestoredState),
                              !.scopes = Append(@, ScopeImpl(name, state0, config.isFrozen))],
                          "returned", NoError)

\* scope.dispatch(actionName, props, emitEvent) on an owned scope, lines
\* 1313-1410 from the call to the return or the throw.
scopeDispatch(sc, actionName, props) ==
    IF ~\E i \in 1..Len(sc.actions) : sc.actions[i] = actionName
    THEN Outcome(sc, "threw", PlainError("This action not exists"))
    ELSE IF sc.isActionInProgress
    THEN Outcome(sc, "threw",
                 PlainError("Now action dispatch not available. Other action spreads."))
    ELSE LET r == Body(actionName, sc.state, props, sc.initState, "none")
         IN  IF r.ok
             THEN Outcome([sc EXCEPT !.state = r.val, !.initState = r.init],
                          "returned", NoError)
             ELSE Outcome([sc EXCEPT !.isActionInProgress = TRUE], "threw",
                          [type |-> "ScopeError", reason |-> "Props is not number",
                           oldState |-> sc.state, actionName |-> actionName,
                           props |-> props])

\* Variant: lock() sets the flag of the store and leaves the scopes alone.
lock_shallow(st) == [st EXCEPT !.isFrozen = TRUE]

\* lock(), lines 1537-1541
lock(st) ==
    [st EXCEPT !.isFrozen = TRUE,
               !.scopes = [i \in 1..Len(st.scopes) |-> [st.scopes[i] EXCEPT !.isFrozen = TRUE]]]

\* reset(emitEvent), lines 1543-1545: this._scopes.forEach from the i-th
\* scope on; what a scope throws ends forEach and reset.
RECURSIVE reset(_, _)
reset(st, i) ==
    IF i > Len(st.scopes)
    THEN Outcome(st, "returned", NoError)
    ELSE LET d == scopeDispatch(st.scopes[i], RESET_SCOPE_ACTION, NullV)
             st1 == [st EXCEPT !.scopes[i] = d.subject]
         IN  IF d.out = "threw" THEN Outcome(st1, "threw", d.err) ELSE reset(st1, i + 1)

\* restore(restoredStates, emitEvent), lines 1547-1554: forEach over the
\* property names of restoredStates, in property order.
RECURSIVE restore(_, _)
restore(st, restoredStates) ==
    IF restoredStates = <<>>
    THEN Outcome(st, "returned", NoError)
    ELSE LET e == Head(restoredStates)
         IN  IF hasScope(st, e.name)
             THEN LET d == scopeDispatch(getScope(st, e.name), RESTORE_SCOPE_ACTION, e.state)
                      st1 == [st EXCEPT !.scopes[ScopeAt(st, e.name)] = d.subject]
                  IN  IF d.out = "threw"
                      THEN Outcome(st1, "threw", d.err)
                      ELSE restore(st1, Tail(restoredStates))
             ELSE restore([st EXCEPT !.statesToRestore = PendingSet(st, e.name, e.state)],
                          Tail(restoredStates))

\* The variables of the free-standing scope: no call into a store reads or
\* writes them.
scopeVars == <<configVars, registryVars, listenerVars, dispatchVars, trace, tried, restored>>

\* The application makes one more call into the registry, a store or an
\* owned scope.
StoreCall ==
    /\ calls < MaxStoreCalls
    /\ calls' = calls + 1
    /\ UNCHANGED <<scopeVars, composeVars>>

\* createStore({name, isFrozen}), lines 1575-1587
CreateStore(name, frozen) ==
    /\ StoreCall
    /\ IF isStoreExist(name)
       THEN /\ stores' = stores
            /\ lastResult' = StoreResult("createStore", name, NoConfig, FALSE, <<>>, "threw",
                                         PlainError("Store name must unique"))
       ELSE /\ stores' = Append(stores, StoreImpl(name, frozen))
            /\ lastResult' = StoreResult("createStore", name, NoConfig, FALSE, <<>>,
                                         "returned", NoError)

\* What a call into the store called storeName leaves in the registry.
StoreCalled(op, storeName, config, use, states, r) ==
    /\ stores' = [stores EXCEPT ![StoreAt(storeName)] = r.subject]
    /\ lastResult' = StoreResult(op, storeName, config, use, states, r.out, r.err)

\* store.createScope(config, useRestoredStateIfAvailable)
CreateScope(storeName, config, use) ==
    /\ StoreCall
    /\ isStoreExist(storeName)
    /\ StoreCalled("createScope", storeName, config, use, <<>>,
                   createScope(getStore(storeName), config, use))

\* store.lock()
StoreLock(storeName) ==
    /\ StoreCall
    /\ isStoreExist(storeName)
    /\ StoreCalled("lock", storeName, NoConfig, FALSE, <<>>,
                   Outcome(lock(getStore(storeName)), "returned", NoError))

\* store.reset()
StoreReset(storeName) ==
    /\ StoreCall
    /\ isStoreExist(storeName)
    /\ StoreCalled("reset", storeName, NoConfig, FALSE, <<>>, reset(getStore(storeName), 1))

\* store.restore(restoredStates)
StoreRestore(storeName, restoredStates) ==
    /\ StoreCall
    /\ isStoreExist(storeName)
    /\ StoreCalled("restore", storeName, NoConfig, FALSE, restoredStates,
                   restore(getStore(storeName), restoredStates))

\* What a call into the scope called scopeName of that store leaves.
ScopeCalled(op, storeName, scopeName, r) ==
    LET st == getStore(storeName)
    IN  StoreCalled(op, storeName, ScopeConfig(scopeName, Undefined, FALSE), FALSE, <<>>,
                    Outcome([st EXCEPT !.scopes[ScopeAt(st, scopeName)] = r.subject],
                            r.out, r.err))

\* The application can call a scope that getScope returns.
Owned(storeName, scopeName) ==
    isStoreExist(storeName) /\ hasScope(getStore(storeName), scopeName)

\* store.getScope(scopeName).registerAction(actionName, action)
OwnedRegisterAction(storeName, scopeName, actionName) ==
    /\ StoreCall
    /\ Owned(storeName, scopeName)
    /\ LET sc == getScope(getStore(storeName), scopeName)
           r == registerAction(sc.actions, sc.members, sc.isFrozen, FALSE, actionName)
       IN  ScopeCalled("registerAction", storeName, scopeName,
                       Outcome([sc EXCEPT !.actions = r.actions, !.members = r.members],
                               IF r.err = NoError THEN "returned" ELSE "threw", r.err))

\* store.getScope(scopeName).dispatch(actionName, props)
OwnedDispatch(storeName, scopeName, actionName, props) ==
    /\ StoreCall
    /\ Owned(storeName, scopeName)
    /\ ScopeCalled("dispatch", storeName, scopeName,
                   scopeDispatch(getScope(getStore(storeName), scopeName), actionName, props))

\* store.getScope(scopeName).lock()
OwnedLock(storeName, scopeName) ==
    /\ StoreCall
    /\ Owned(storeName, scopeName)
    /\ ScopeCalled("scope.lock", storeName, scopeName,
                   Outcome([getScope(getStore(storeName), scopeName) EXCEPT !.isFrozen = TRUE],
                           "returned", NoError))

\* store.getScope(scopeName).subscribe(listener)
OwnedSubscribe(storeName, scopeName) ==
    /\ StoreCall
    /\ Owned(storeName, scopeName)
    /\ LET sc == getScope(getStore(storeName), scopeName)
       IN  ScopeCalled("subscribe", storeName, scopeName,
                       Outcome([sc EXCEPT
                                   !.listenerIndex = @ + 1,
                                   !.listeners = Append(@, Listener(sc.listenerIndex + 1, {}))],
                               "returned", NoError))

----------------------------------------------------------------------------
(* The scope after construction, and its behaviours *)

\* The configurations [isImmutabilityEnabled, isSubscribedMacroAutoCreateEnabled,
\* middleware, initState]: the counter of the scenarios with the default
\* options, each option alone, and deep freezing with a state to freeze.
Configs == {<<FALSE, FALSE, <<>>, Num(0)>>,
            <<TRUE, FALSE, <<>>, Obj(1, FALSE)>>,
            <<FALSE, TRUE, <<>>, Num(0)>>,
            <<FALSE, FALSE, <<1, 2>>, Num(0)>>}

\* The names the application subscribes to: a builtin action and one it
\* has to register first.
SubscribeNames == {RESET_SCOPE_ACTION, "increment"}

\* The lists of action names it subscribes with: each name alone and both.
SubscribeSets == {{a} : a \in SubscribeNames} \cup {SubscribeNames}

\* The states the application restores.
RestoreStates == {Num(1), Obj(2, FALSE)}

RECURSIVE reverse(_)

\* Variant: the constructor keeps the configured order.
reverse_kept(s) == s

\* Line 1206: [...middleware].reverse()
reverse(s) == IF s = <<>> THEN <<>> ELSE Append(reverse(Tail(s)), Head(s))

\* The fields of a scope constructed with the configuration c.
ScopeInit(c) ==
    /\ isImmutabilityEnabled = c[1]
    /\ isSubscribedMacroAutoCreateEnabled = c[2]
    /\ middleware = reverse(c[3])
    /\ actions = ConstructedRegistry(c[2]).actions
    /\ members = ConstructedRegistry(c[2]).members
    /\ state = c[4]
    /\ initState = c[4]
    /\ fold = [s |-> c[4], init |-> c[4]]
    /\ isFrozen = FALSE
    /\ context = NullV
    /\ contextEvent = NoEvent
    /\ isActionInProgress = FALSE
    /\ listeners = <<>>
    /\ listenerIndex = 0
    /\ stack = <<>>
    /\ pending = <<>>
    /\ cursor = 0
    /\ trace = <<>>
    /\ incs = 0
    /\ tried = {}
    /\ restored = NotRestored
    /\ calls = 0

Init ==
    /\ \E c \in Configs : ScopeInit(c)
    /\ lastResult = NoResult
    /\ stores = <<>>
    /\ heap = <<>>
    /\ scopes = <<>>
    /\ dispatches = <<>>

Next ==
    \/ \E a \in UserActions : RegisterAction(a)
    \/ \E n \in MacroNames, g \in BOOLEAN, t \in MacroTypes : RegisterMacro(n, g, t)
    \/ \E as \in SubscribeSets : Subscribe(as)
    \/ Subscribe({})
    \/ \E a \in ActionNames : InvokeSubscriberMacro(a)
    \/ \E n \in MacroNames, p \in {Undefined, Num(2)} : InvokeMacro(n, p)
    \/ \E id \in 1..MaxListenerIds : Unsubscribe(id)
    \/ \E id \in 1..MaxListenerIds : UnsubscribeCallback(id)
    \/ Lock
    \/ \E a \in UserActions, e \in BOOLEAN : \E p \in PropsFor(a) : Dispatch(a, p, e)
    \/ \E a \in UserActions, e \in BOOLEAN : \E p \in PropsFor(a) : ActionDispatcher(a, p, e)
    \/ Reset(TRUE)
    \/ \E v \in RestoreStates : Restore(v, TRUE)
    \/ BodyDispatch
    \/ BodyReturn
    \/ BodyThrow
    \/ \E t \in BOOLEAN : DeliverToListener(t)
    \/ \E a \in {RESET_SCOPE_ACTION, "setCounter"} : ListenerDispatch(a, Num(1))
    \/ EventDelivered

Spec == Init /\ [][Next]_vars

----------------------------------------------------------------------------
(* The registry of stores after the module is loaded, and its behaviours *)

\* The configs the application creates scopes with: the counter of the
\* scenarios, a scope that is created locked, and a config without a name.
ScopeConfigs == {ScopeConfig("counter", Num(0), FALSE),
                 ScopeConfig("settings", NullV, TRUE),
                 ScopeConfig("", NullV, FALSE)}

\* The objects the application passes to store.restore, as the list of
\* their properties.
RestoredStates == {<<[name |-> "counter", state |-> Num(1)]>>,
                   <<[name |-> "counter", state |-> Num(2)],
                     [name |-> "settings", state |-> Num(1)]>>}

\* The names under which the application looks scopes up.
OwnedNames == ScopeNames \cup {GeneratedName(1)}

StoreInit ==
    /\ ScopeInit(<<FALSE, FALSE, <<>>, Num(0)>>)
    /\ lastResult = NoStoreResult
    /\ stores = <<>>
    /\ heap = <<>>
    /\ scopes = <<>>
    /\ dispatches = <<>>

StoreNext ==
    \/ \E n \in StoreNames, f \in BOOLEAN : CreateStore(n, f)
    \/ \E n \in StoreNames, c \in ScopeConfigs, u \in BOOLEAN : CreateScope(n, c, u)
    \/ \E n \in StoreNames : StoreLock(n)
    \/ \E n \in StoreNames : StoreReset(n)
    \/ \E n \in StoreNames, r \in RestoredStates : StoreRestore(n, r)
    \/ \E n \in StoreNames, s \in OwnedNames : OwnedRegisterAction(n, s, "setCounter")
    \/ \E n \in StoreNames, s \in OwnedNames : \E p \in PropsFor("setCounter") :
            OwnedDispatch(n, s, "setCounter", p)
    \/ \E n \in StoreNames, s \in OwnedNames : OwnedLock(n, s)
    \/ \E n \in StoreNames, s \in OwnedNames : OwnedSubscribe(n, s)

StoreSpec == StoreInit /\ [][StoreNext]_vars

----------------------------------------------------------------------------
(* The variant with synchronous, asynchronous and composed scopes          *)
(* (index.ts lines 254-765): the process-wide registry `scopes`, the        *)
(* classes SyncScopeImpl, AsyncScopeImpl with its _actionQueue, and         *)
(* ComposeScopeImpl.  Scope objects live in `heap` and are referred to by   *)
(* their position; `scopes` maps names to them.  One call of dispatch on an *)
(* asynchronous scope is a record of `dispatches` that goes through         *)
(*   queued    its deferredAction is in _actionQueue and has not run        *)
(*   running   the action has been called and its promise is pending        *)
(*   resolved, rejected   that promise has settled, the handler of .then    *)
(*             has not run yet                                              *)
(*   fulfilled, failed    the handler has run to its end                    *)
(*   aborted   the handler onFulfilled threw before it reached              *)
(*             startNextDeferredAction                                      *)
(* A call into the engine runs to its end in one step; the steps in between *)
(* are the settling of a promise and the run of a .then handler.            *)

\* The initState a scope is created with: A with 1, B with 2 and the root
\* scope with {}; `initState = null` for a config that names none.
InitStateOf(name) ==
    CASE name = "A" -> Num(1)
      [] name = "B" -> Num(2)
      [] name = "rootScope" -> Obj(0, FALSE)
      [] OTHER -> NullV

\* The actions of these scopes:
\*   setCounter  (s, p) => typeof p === 'number' ? p : throw / reject
\*   noop        (s) => s
\* and the props they are dispatched with.
ComposeProps(actionName) ==
    IF actionName = "setCounter" THEN {Num(3), Str} ELSE {Undefined}

\* What the action returns, or resolves its promise with; ok is false when
\* it throws, or rejects its promise.
actionOutcome(actionName, oldState, props) ==
    IF actionName = "setCounter"
    THEN [ok |-> TypeOf(props) = "number", val |-> props]
    ELSE [ok |-> TRUE, val |-> oldState]

\* Object.getOwnPropertyNames(obj), the first statement of deepFreeze,
\* throws a TypeError for null and undefined.
deepFreezeThrows(x) == "kind" \in DOMAIN x /\ x.kind \in {"null", "undefined"}

ScopeEvent(scopeName, actionName, props, oldState, newState) ==
    [scopeName |-> scopeName, actionName |-> actionName, props |-> props,
     oldState |-> oldState, newState |-> newState]

\* A listener of the application (it throws or it does not), or the one a
\* composed scope subscribes to each of its members.
AppListener(throws) == [kind |-> "app", owner |-> 0, throws |-> throws]

ComposeListener(owner) == [kind |-> "compose", owner |-> owner, throws |-> FALSE]

\* The fields of a scope object; `scopes` is the _scopes of a composed scope.
ScopeObject(name, kind, state0, composed) ==
    [name |-> name, kind |-> kind, state |-> state0, isFrozen |-> FALSE,
     actions |-> <<>>, listeners |-> <<>>, actionQueue |-> <<>>, scopes |-> composed]

\* The listener at position `listener` of the scope `scope` was called with
\* ev, at a moment when scope.state was `seen`.
ListenerCall(scope, listener, ev, seen) ==
    [k |-> "listener", scope |-> scope, listener |-> listener, ev |-> ev, seen |-> seen]

\* storeDevTool.onAction(event) and storeDevTool.onActionError(error)
ToolCall(k, scope, ev) ==
    [k |-> k, scope |-> scope, listener |-> 0, ev |-> ev, seen |-> Undefined]

DispatchRecord(scope, actionName, props, by) ==
    [scope |-> scope, actionName |-> actionName, props |-> props, phase |-> "queued",
     oldState |-> Undefined, value |-> Undefined, members |-> <<>>, by |-> by]

\* The objects, the dispatch records and the observations that a call
\* works on, and whether the call is unwinding with an exception.
World(h, d, t) == [heap |-> h, dispatches |-> d, trace |-> t, thrown |-> FALSE]

supports(h, id, actionName) ==
    \E i \in 1..Len(h[id].actions) : h[id].actions[i] = actionName

\* get state(): _state, and for a composed scope the object built by
\* _scopes.forEach(scope => state[scope.name] = scope.state), in which a
\* later member overwrites an earlier one of the same name.
RECURSIVE getState(_, _)
RECURSIVE statesOf(_, _)
statesOf(h, ms) ==
    IF ms = <<>> THEN <<>>
    ELSE LET scope == ms[Len(ms)]
         IN  (h[scope].name :> getState(h, scope)) @@ statesOf(h, SubSeq(ms, 1, Len(ms) - 1))

getState(h, id) ==
    IF h[id].kind = "compose" THEN statesOf(h, h[id].scopes) ELSE h[id].state

\* Object.getOwnPropertyNames(this._listeners).forEach(key => listener(event))
\* from the listener at position i on: no listener is called inside a try,
\* so the first one that throws ends the loop and unwinds into the caller.
\* The listener of a composed scope (lines 601-610) hands `republished` to
\* the listeners of that scope.
RECURSIVE notify(_, _, _, _)
notify(w, id, ev, i) ==
    IF w.thrown \/ i > Len(w.heap[id].listeners)
    THEN w
    ELSE LET l == w.heap[id].listeners[i]
             currentState == getState(w.heap, l.owner)
             republished ==
                 ScopeEvent(w.heap[id].name, ev.actionName, ev.props,
                            [currentState EXCEPT ![w.heap[id].name] = ev.oldState],
                            currentState)
         IN  IF l.kind = "compose"
             THEN notify(notify(w, l.owner, republished, 1), id, ev, i + 1)
             ELSE notify([w EXCEPT !.trace = Append(@, ListenerCall(id, i, ev,
                                                                    getState(w.heap, id))),
                                   !.thrown = l.throws],
                         id, ev, i + 1)

RECURSIVE invoke(_, _)
RECURSIVE dispatchOn(_, _, _, _, _)
RECURSIVE dispatchAll(_, _, _, _)

\* Lines 620-624: scopes.filter(supports).map(scope => scope.dispatch(
\* actionName, props)) from the member at position i on, for the dispatch d
\* of the composed scope.  A dispatch that throws ends the map.
dispatchAll(w, d, ms, i) ==
    IF w.thrown \/ i > Len(ms)
    THEN w
    ELSE IF ~supports(w.heap, ms[i], w.dispatches[d].actionName)
    THEN dispatchAll(w, d, ms, i + 1)
    ELSE LET made == Len(w.dispatches) + 1
             w1 == dispatchOn(w, ms[i], w.dispatches[d].actionName,
                              w.dispatches[d].props, d)
         IN  dispatchAll([w1 EXCEPT !.dispatches[d].members = Append(@, made)],
                         d, ms, i + 1)

\* deferredAction (lines 535-545) of the dispatch d: the action is called
\* with the state of this moment.  The action of a composed scope (lines
\* 619-626) dispatches to its members and waits for them with Promise.all;
\* what it throws rejects the promise of d.
invoke(w, d) ==
    LET s == w.dispatches[d].scope
        w1 == [w EXCEPT !.dispatches[d].oldState = getState(w.heap, s),
                        !.dispatches[d].phase = "running"]
    IN  IF w.heap[s].kind = "compose"
        THEN LET w2 == dispatchAll(w1, d, w.heap[s].scopes, 1)
             IN  IF w2.thrown
                 THEN [w2 EXCEPT !.thrown = FALSE, !.dispatches[d].phase = "rejected"]
                 ELSE w2
        ELSE w1

\* Variant: every dispatch calls its action at once, queue or no queue.
isFirstAction_always(queue) == TRUE

\* Line 534
isFirstAction(queue) == Len(queue) = 0

\* SyncScopeImpl.dispatch (lines 449-500) and AsyncScopeImpl.dispatch up to
\* the return of the promise (lines 512-549), called by the application
\* (by = 0) or by the action of a composed scope (by = its dispatch).
dispatchOn(w, id, actionName, props, by) ==
    LET made == Len(w.dispatches) + 1
        rec == DispatchRecord(id, actionName, props, by)
        sc == w.heap[id]
    IN  IF ~supports(w.heap, id, actionName)
        THEN [w EXCEPT !.thrown = TRUE]
        ELSE IF sc.kind = "sync"
        THEN LET r == actionOutcome(actionName, sc.state, props)
                 ev == ScopeEvent(sc.name, actionName, props, sc.state, r.val)
                 failed(x) ==
                     [x EXCEPT !.dispatches[made].phase = "failed",
                               !.trace = Append(@, ToolCall("onActionError", id, ev)),
                               !.thrown = TRUE]
                 w1 == [w EXCEPT !.dispatches =
                                     Append(@, [rec EXCEPT !.oldState = sc.state,
                                                           !.phase = "running"])]
             IN  IF ~r.ok \/ deepFreezeThrows(r.val)
                 THEN failed(w1)
                 ELSE LET w2 == [w1 EXCEPT !.heap[id].state = r.val,
                                           !.dispatches[made].value = r.val,
                                           !.trace = Append(@, ToolCall("onAction", id, ev))]
                          w3 == notify(w2, id, ev, 1)
                      IN  IF w3.thrown
                          THEN failed(w3)
                          ELSE [w3 EXCEPT !.dispatches[made].phase = "fulfilled"]
        ELSE LET w1 == [w EXCEPT !.dispatches = Append(@, rec),
                                 !.heap[id].actionQueue = Append(@, made)]
             IN  IF isFirstAction(sc.actionQueue) THEN invoke(w1, made) ELSE w1

\* The two handlers of .then (lines 550-578) for the dispatch d, whose
\* promise has settled.  What deepFreeze or a listener throws leaves
\* onFulfilled before startNextDeferredAction (lines 525-531).
onSettled(w, d) ==
    LET r == w.dispatches[d]
        s == r.scope
        startNextDeferredAction(x, id) ==
            LET queue == Tail(x.heap[id].actionQueue)
                x1 == [x EXCEPT !.heap[id].actionQueue = queue]
            IN  IF Len(queue) > 0 THEN invoke(x1, Head(queue)) ELSE x1
        ev == ScopeEvent(w.heap[s].name, r.actionName, r.props, r.oldState, r.value)
    IN  IF r.phase = "resolved"
        THEN IF deepFreezeThrows(r.value)
             THEN [w EXCEPT !.dispatches[d].phase = "aborted"]
             ELSE LET w1 == [w EXCEPT !.heap[s].state = r.value,
                                      !.trace = Append(@, ToolCall("onAction", s, ev))]
                      w2 == notify(w1, s, ev, 1)
                  IN  IF w2.thrown
                      THEN [w2 EXCEPT !.thrown = FALSE, !.dispatches[d].phase = "aborted"]
                      ELSE startNextDeferredAction(
                               [w2 EXCEPT !.dispatches[d].phase = "fulfilled"], s)
        ELSE startNextDeferredAction(
                 [w EXCEPT !.dispatches[d].phase = "failed",
                           !.trace = Append(@, ToolCall("onActionError", s, ev))],
                 s)

----------------------------------------------------------------------------
(* createScope, registerAction, subscribe, lock and composeScope of that    *)
(* variant, as functions of the objects and the registry                    *)

Made(h, reg, err) == [heap |-> h, scopes |-> reg, err |-> err]

\* createScope(type, {name, initState}), lines 644-668
createScopeOfType(h, reg, type, name) ==
    IF reg[name] # 0
    THEN Made(h, reg, "Scope name must unique")
    ELSE Made(Append(h, ScopeObject(name, type, InitStateOf(name), <<>>)),
              [reg EXCEPT ![name] = Len(h) + 1], "")

\* registerAction(actionName, action), lines 294-332, for action names that
\* no member of the classes bears.
registerActionOn(h, reg, id, actionName) ==
    IF h[id].isFrozen
    THEN Made(h, reg, "This scope is locked you can't add new action.")
    ELSE IF supports(h, id, actionName)
    THEN Made(h, reg, "Action name is duplicate or reserved in scope.")
    ELSE Made([h EXCEPT ![id].actions = Append(@, actionName)], reg, "")

\* Variant: lock() that leaves the scope as it is.
lockScope_skipped(h, id) == h

\* lock(), lines 436-439
lockScope(h, id) == [h EXCEPT ![id].isFrozen = TRUE]

\* subscribe(listener), lines 371-402, without action names
subscribeOn(h, id, l) == [h EXCEPT ![id].listeners = Append(@, l)]

\* An element of the list given to composeScope: a scope, or a name.
Instance(id) == [isName |-> FALSE, name |-> "", id |-> id]

ByName(name) == [isName |-> TRUE, name |-> name, id |-> 0]

RECURSIVE distinct(_)

\* Variant: the list as it is, duplicates included.
distinct_unfiltered(ids) == ids

\* Lines 710-712: filter((scope, i, self) => scope && self.indexOf(scope) === i)
distinct(ids) ==
    IF ids = <<>> THEN <<>>
    ELSE LET front == SubSeq(ids, 1, Len(ids) - 1)
             x == ids[Len(ids)]
         IN  IF \E i \in 1..Len(front) : front[i] = x
             THEN distinct(front)
             ELSE Append(distinct(front), x)

\* Lines 597-612: every member is locked and subscribed to, in order.
RECURSIVE lockAndSubscribe(_, _, _, _)
lockAndSubscribe(h, c, composed, i) ==
    IF i > Len(composed) THEN h
    ELSE lockAndSubscribe(subscribeOn(lockScope(h, composed[i]), composed[i],
                                      ComposeListener(c)),
                          c, composed, i + 1)

\* Lines 598 and 614-616: the action names of the members, each once, in
\* the order of their first occurrence.
RECURSIVE supportActionsOf(_, _)
supportActionsOf(h, composed) ==
    IF composed = <<>> THEN <<>>
    ELSE LET before == supportActionsOf(h, SubSeq(composed, 1, Len(composed) - 1))
             own == h[composed[Len(composed)]].actions
         IN  before \o SelectSeq(own, LAMBDA a : \A i \in 1..Len(before) : before[i] # a)

\* new ComposeScopeImpl(scopes, config), lines 587-630
ComposeScopeImpl(h, name, composed) ==
    LET c == Len(h) + 1
        h1 == Append(h, ScopeObject(name, "compose", NullV, composed))
        h2 == lockAndSubscribe(h1, c, composed, 1)
        h3 == [h2 EXCEPT ![c].actions = supportActionsOf(h, composed)]
    IN  lockScope(h3, c)

\* composeScope(scopes, {name}), lines 700-722.  `scopes` in its body is
\* its parameter, the array of scopes and names, and not the registry:
\*   `name in scopes` (line 705) is true for "length", for the indices of
\*     the array and for the members of Array.prototype, which none of the
\*     names here is;
\*   scopes[name] = scope (line 718) sets a property of the array it was
\*     given, and the registry stays as it is.
\* Line 709 resolves a name with getScope (lines 731-736), whose throw for
\* a name without a scope is the 0 here.
composeScope(h, reg, name, list) ==
    LET MIN_COMPOSE_SCOPE_COUNT == 2
        nameInScopes == name = "length"
        resolved == [i \in 1..Len(list) |->
                        IF list[i].isName THEN reg[list[i].name] ELSE list[i].id]
    IN  IF nameInScopes
        THEN Made(h, reg, "Scope name must unique")
        ELSE IF \E i \in 1..Len(list) : resolved[i] = 0
        THEN Made(h, reg, "Scope with name not present")
        ELSE LET composeScopes == distinct(resolved)
             IN  IF Len(composeScopes) < MIN_COMPOSE_SCOPE_COUNT
                 THEN Made(h, reg, "Compose scopes length must be greater than one")
                 ELSE Made(ComposeScopeImpl(h, name, composeScopes), reg, "")

----------------------------------------------------------------------------
(* The calls of the application into that variant, and its behaviours       *)

\* How the last step ended: the call, the scope object it was made on or
\* has made, the name and the list it was given, the dispatch it has made or
\* has continued, and the message of the error it threw.
ComposeResult(op, id, name, list, d, err) ==
    [op |-> op, scope |-> id, name |-> name, list |-> list, made |-> d, err |-> err]

\* The variables of the canonical scope and of the stores.
canonicalVars == <<configVars, registryVars, listenerVars, dispatchVars, tried, restored,
                   stores>>

\* The application makes one more call.
ComposeCall ==
    /\ calls < MaxComposeCalls
    /\ calls' = calls + 1
    /\ UNCHANGED canonicalVars

\* The listeners the application has subscribed, over all scopes.
RECURSIVE AppListeners(_)
AppListeners(h) ==
    IF h = <<>> THEN 0
    ELSE AppListeners(SubSeq(h, 1, Len(h) - 1))
         + Len(SelectSeq(h[Len(h)].listeners, LAMBDA l : l.kind = "app"))

\* createSyncScope({name}) and createAsyncScope({name}), lines 677-690
CreatePlainScope(type, name) ==
    LET m == createScopeOfType(heap, scopes, type, name)
    IN  /\ ComposeCall
        /\ Len(m.heap) <= MaxScopes
        /\ heap' = m.heap
        /\ scopes' = m.scopes
        /\ trace' = <<>>
        /\ lastResult' = ComposeResult("createScope", IF m.err = "" THEN Len(m.heap) ELSE 0,
                                       name, <<>>, 0, m.err)
        /\ UNCHANGED dispatches

\* scope.registerAction(actionName, action)
ScopeRegisterAction(id, actionName) ==
    LET m == registerActionOn(heap, scopes, id, actionName)
    IN  /\ ComposeCall
        /\ id <= Len(heap)
        /\ heap' = m.heap
        /\ trace' = <<>>
        /\ lastResult' = ComposeResult("registerAction", id, actionName, <<>>, 0, m.err)
        /\ UNCHANGED <<scopes, dispatches>>

\* scope.subscribe(listener)
ScopeSubscribe(id, throws) ==
    /\ ComposeCall
    /\ id <= Len(heap)
    /\ AppListeners(heap) < MaxScopeListeners
    /\ heap' = subscribeOn(heap, id, AppListener(throws))
    /\ trace' = <<>>
    /\ lastResult' = ComposeResult("subscribe", id, "", <<>>, 0, "")
    /\ UNCHANGED <<scopes, dispatches>>

\* composeScope(list, {name}) with scopes that exist
ComposeScope(name, list) ==
    LET m == composeScope(heap, scopes, name, list)
    IN  /\ ComposeCall
        /\ \A i \in 1..Len(list) : list[i].id <= Len(heap)
        /\ Len(m.heap) <= MaxScopes
        /\ heap' = m.heap
        /\ scopes' = m.scopes
        /\ trace' = <<>>
        /\ lastResult' = ComposeResult("composeScope", IF m.err = "" THEN Len(m.heap) ELSE 0,
                                       name, list, 0, m.err)
        /\ UNCHANGED dispatches

\* scope.dispatch(actionName, props)
ScopeDispatch(id, actionName, props) ==
    LET w == dispatchOn(World(heap, dispatches, <<>>), id, actionName, props, 0)
    IN  /\ ComposeCall
        /\ id <= Len(heap)
        /\ Len(w.dispatches) <= MaxDispatches
        /\ heap' = w.heap
        /\ dispatches' = w.dispatches
        /\ trace' = w.trace
        /\ lastResult' = ComposeResult("dispatch", id, actionName, <<>>,
                                       IF Len(w.dispatches) > Len(dispatches)
                                       THEN Len(dispatches) + 1 ELSE 0,
                                       IF w.thrown THEN "thrown" ELSE "")
        /\ UNCHANGED scopes

\* The promise that the action of a synchronous or asynchronous scope has
\* returned settles (line 541; a plain value settles it at once).
ActionSettles(d) ==
    /\ d <= Len(dispatches)
    /\ dispatches[d].phase = "running"
    /\ heap[dispatches[d].scope].kind = "async"
    /\ LET r == actionOutcome(dispatches[d].actionName, dispatches[d].oldState,
                              dispatches[d].props)
       IN  dispatches' = [dispatches EXCEPT ![d].phase = IF r.ok THEN "resolved" ELSE "rejected",
                                            ![d].value = r.val]
    /\ trace' = <<>>
    /\ lastResult' = ComposeResult("settle", dispatches[d].scope, dispatches[d].actionName,
                                   <<>>, d, "")
    /\ UNCHANGED <<heap, scopes, calls, canonicalVars>>

\* Line 625, Promise.all(dispatchPromises).then(() => this.state): the
\* promise of the action of a composed scope is rejected once a member's
\* promise is, and is resolved with the state of the composed scope once
\* every member's promise is fulfilled.
AllSettle(d) ==
    /\ d <= Len(dispatches)
    /\ dispatches[d].phase = "running"
    /\ heap[dispatches[d].scope].kind = "compose"
    /\ LET ms == dispatches[d].members
           phaseOf(i) == dispatches[ms[i]].phase
       IN  \/ /\ \E i \in 1..Len(ms) : phaseOf(i) \in {"failed", "aborted"}
              /\ dispatches' = [dispatches EXCEPT ![d].phase = "rejected"]
           \/ /\ \A i \in 1..Len(ms) : phaseOf(i) = "fulfilled"
              /\ dispatches' = [dispatches EXCEPT
                                    ![d].phase = "resolved",
                                    ![d].value = getState(heap, dispatches[d].scope)]
    /\ trace' = <<>>
    /\ lastResult' = ComposeResult("settle", dispatches[d].scope, dispatches[d].actionName,
                                   <<>>, d, "")
    /\ UNCHANGED <<heap, scopes, calls, canonicalVars>>

\* The handler that .then (lines 550-578) has attached to the promise of the
\* dispatch d runs.
Then(d) ==
    /\ d <= Len(dispatches)
    /\ dispatches[d].phase \in {"resolved", "rejected"}
    /\ LET w == onSettled(World(heap, dispatches, <<>>), d)
       IN  /\ heap' = w.heap
           /\ dispatches' = w.dispatches
           /\ trace' = w.trace
    /\ lastResult' = ComposeResult("then", dispatches[d].scope, dispatches[d].actionName,
                                   <<>>, d, "")
    /\ UNCHANGED <<scopes, calls, canonicalVars>>

\* The set-up of the application.  The registry starts empty (line 642,
\* const scopes = {}: no name has a scope, 0) and ROOT_SCOPE is its first
\* scope (line 765).  The application creates the scopes A and B, of the
\* types typeA and typeB, registers setCounter on both and noop on A, and
\* subscribes either no listener or a listener that throws to A.
SetUp(typeA, typeB, throwing) ==
    LET noScopes == [A |-> 0, B |-> 0, C |-> 0, length |-> 0, rootScope |-> 0]
        m1 == createScopeOfType(<<>>, noScopes, "async", "rootScope")
        m2 == createScopeOfType(m1.heap, m1.scopes, typeA, "A")
        m3 == createScopeOfType(m2.heap, m2.scopes, typeB, "B")
        m4 == registerActionOn(m3.heap, m3.scopes, 2, "setCounter")
        m5 == registerActionOn(m4.heap, m4.scopes, 3, "setCounter")
        m6 == registerActionOn(m5.heap, m5.scopes, 2, "noop")
    IN  IF throwing
        THEN Made(subscribeOn(m6.heap, 2, AppListener(TRUE)), m6.scopes, "")
        ELSE m6

\* The lists the application composes scopes from: scopes and names, with
\* a scope given twice, a single scope, a scope created later (a composed
\* one or a plain one) and a name that a composed scope was given.
ComposeLists ==
    {<<Instance(2), Instance(3)>>,
     <<ByName("A"), ByName("B")>>,
     <<Instance(2), ByName("A")>>,
     <<Instance(3)>>,
     <<Instance(4), Instance(2)>>,
     <<ByName("C"), Instance(3)>>}

ComposeInit ==
    /\ ScopeInit(<<FALSE, FALSE, <<>>, Num(0)>>)
    /\ stores = <<>>
    /\ lastResult = ComposeResult("none", 0, "", <<>>, 0, "")
    /\ \E m \in {SetUp(typeA, typeB, throwing) :
                        typeA \in {"sync", "async"}, typeB \in {"sync", "async"},
                        throwing \in BOOLEAN} :
            /\ heap = m.heap
            /\ scopes = m.scopes
    /\ dispatches = <<>>

ComposeNext ==
    \/ \E t \in {"sync", "async"}, n \in {"A", "C"} : CreatePlainScope(t, n)
    \/ \E id \in 1..MaxScopes, a \in {"setCounter", "noop"} : ScopeRegisterAction(id, a)
    \/ \E id \in 1..MaxScopes, t \in BOOLEAN : ScopeSubscribe(id, t)
    \/ \E n \in {"C", "A", "length"}, l \in ComposeLists : ComposeScope(n, l)
    \/ \E id \in 1..MaxScopes, a \in {"setCounter", "noop"} : \E p \in ComposeProps(a) :
            ScopeDispatch(id, a, p)
    \/ \E d \in 1..MaxDispatches : ActionSettles(d)
    \/ \E d \in 1..MaxDispatches : AllSettle(d)
    \/ \E d \in 1..MaxDispatches : Then(d)

ComposeSpec == ComposeInit /\ [][ComposeNext]_vars

\* The application only dispatches, on the scopes of its set-up.
AsyncNext ==
    \/ \E id \in 1..MaxScopes, a \in {"setCounter", "noop"} : \E p \in ComposeProps(a) :
            ScopeDispatch(id, a, p)
    \/ \E d \in 1..MaxDispatches : ActionSettles(d)
    \/ \E d \in 1..MaxDispatches : Then(d)

AsyncSpec == ComposeInit /\ [][AsyncNext]_vars

\* The behaviours in which every promise that can settle does settle and
\* every handler attached to a settled promise runs: the actions the
\* application has registered settle, and the job queue of the engine runs
\* the handlers of .then.  The application is free to stop calling.
FairAsyncSpec ==
    AsyncSpec /\ WF_vars(\E d \in 1..MaxDispatches : ActionSettles(d) \/ Then(d))

----------------------------------------------------------------------------
(* Vocabulary of the properties *)

DispatchOps == {"dispatch", "dispatcher", "reset", "restore"}

\* The application's last call was a dispatch, reset or restore that has
\* returned / that has thrown the Scope Error of a failed action.
DispatchReturned == Idle /\ lastResult.op \in DispatchOps /\ lastResult.out = "returned"

DispatchFailed == Idle /\ lastResult.out = "threw" /\ lastResult.err.type = "ScopeError"

ObsOf(k) == {i \in 1..Len(trace) : trace[i].k = k}

\* How often the listener registered under id was called during the last call.
ListenerCount(id) == Cardinality({i \in ObsOf("listener") : trace[i].id = id})

ListenerSet == {listeners[i] : i \in 1..Len(listeners)}

\* The listener was subscribed for the action called name: with that name
\* among its action names, or without action names.
SubscribedFor(l, name) == l.actionNames = {} \/ name \in l.actionNames

\* The store owns a scope of that name.
OwnsScope(st, scopeName) == \E j \in 1..Len(st.scopes) : st.scopes[j].name = scopeName

\* The scope of that name in the store.
OwnedScope(st, scopeName) ==
    st.scopes[CHOOSE j \in 1..Len(st.scopes) : st.scopes[j].name = scopeName]

\* A store of that name is in the registry.
Registered(storeName) == \E i \in 1..Len(stores) : stores[i].name = storeName

\* The store the last call was made on, before and after the step.
CalledStore == stores[CHOOSE i \in 1..Len(stores) : stores[i].name = lastResult.store]

CalledStoreBefore == stores[CHOOSE i \in 1..Len(stores) : stores[i].name = lastResult'.store]

CalledStoreAfter == stores'[CHOOSE i \in 1..Len(stores') : stores'[i].name = lastResult'.store]

----------------------------------------------------------------------------
(* Properties *)

\* C1: nested dispatch ordering.  When the body of action compound has
\* dispatched _reset on the same scope and the outer dispatch call is over,
\* the call has returned, the committed state is what compound returned (its
\* props) and every unfiltered listener has seen the event of _reset before
\* the event of compound.
C1_NestedDispatchOrdering ==
    (/\ Idle
     /\ lastResult.op = "dispatch"
     /\ lastResult.name = "compound"
     /\ lastResult.emit
     /\ lastResult.err.type # "Error")
    => /\ lastResult.out = "returned"
       /\ \A p \in PropsFor("compound") : SameValue(state, p)
       /\ \A l \in ListenerSet :
            l.actionNames = {} =>
                \E i, j \in ObsOf("listener") :
                    /\ i < j
                    /\ trace[i].id = l.id /\ trace[i].ev.actionName = RESET_SCOPE_ACTION
                    /\ trace[j].id = l.id /\ trace[j].ev.actionName = "compound"

\* C2: re-entrant dispatch is accepted.  A dispatch call made by the body of
\* an action that is being dispatched is not rejected; it runs as a nested
\* call with oldState equal to the context, and the committed state is the
\* one from before the root call as long as the root call has not completed.
C2_ReentrantDispatchAccepted ==
    \A i \in 1..Len(stack) :
        /\ stack[i].nested # "threw"
        /\ i > 1 => /\ ~stack[i].isRootAction
                    /\ state = stack[1].oldState

\* C3: a scope returns to Idle after a failed dispatch.  Once a dispatch has
\* thrown because its action threw, isActionDispatchAvailable is true again,
\* and no later dispatch of a registered action is turned away as "dispatch
\* not available" while nothing is being dispatched.
C3_IdleAfterFailedDispatch ==
    /\ DispatchFailed => isActionDispatchAvailable
    /\ (Idle /\ lastResult.op \in DispatchOps /\ lastResult.out = "threw"
          /\ HasAction(lastResult.name))
       => lastResult.err.type = "ScopeError"

\* C4: when a dispatched action throws, dispatch throws a Scope Error that
\* names the action and whose oldState is the committed state from before
\* the call; the committed state is still that state (the fold of the
\* successful dispatches) and neither a listener nor onAction was called.
C4_FailedDispatchThrowsScopeError ==
    DispatchFailed =>
        /\ lastResult.err.oldState = state
        /\ SameValue(state, fold.s)
        /\ lastResult.err.actionName = lastResult.name
        /\ ObsOf("listener") = {}
        /\ ObsOf("onAction") = {}
        /\ ObsOf("onActionError") # {}

C4_Witness ==
    /\ DispatchFailed
    /\ lastResult.name = "setCounter"
    /\ lastResult.err.props = Str
    /\ Len(listeners) > 0

\* C5: the committed state changes only when a root dispatch call commits
\* the value its action returned (the value that dispatch then returns);
\* every other step - registerAction, registerMacro, a macro call, subscribe,
\* unsubscribe, lock, a dispatch that throws - leaves it as it is, and while
\* an action body is executing scope.state is the pre-dispatch value.
C5_CommitStep ==
    state' # state =>
        /\ ~Idle
        /\ Top.phase = "body"
        /\ Top.isRootAction
        /\ lastResult'.out # "threw"
        /\ lastResult'.op \in DispatchOps
        /\ IF stack' = <<>>
           THEN lastResult'.out = "returned" /\ lastResult'.val = state'
           ELSE stack'[1].phase = "fanout" /\ stack'[1].newState = state'

C5_BodySeesOldState ==
    (~Idle /\ stack[1].phase = "body") => state = stack[1].oldState

C6_NewStateDeepFrozen ==
    isImmutabilityEnabled =>
        /\ (DispatchReturned /\ IsObject(state)) => state.frozen
        /\ \A i \in ObsOf("listener") : IsObject(trace[i].seen) => trace[i].seen.frozen

\* C7: sequential dispatches compose.  Every root action is called with the
\* state committed by the previous successful dispatch (the initial state for
\* the first), the committed state is the fold of the dispatched actions over
\* the initial state, and n increments of a counter that starts at i give
\* i + n (0 and three increments give 3).
C7_SequentialDispatchesCompose ==
    /\ \A i \in 1..Len(stack) :
        (stack[i].isRootAction /\ stack[i].phase = "body")
            => SameValue(stack[i].oldState, fold.s)
    /\ Idle => SameValue(state, fold.s)
    /\ (Idle /\ incs >= 0 /\ IsNumber(initState)) => state = Num(initState.v + incs)

C7_Witness == Idle /\ incs = 3 /\ initState = Num(0) /\ state = Num(3)

\* C8 as stated: after every dispatch that has returned, a listener
\* subscribed with action names has been called exactly once if the
\* dispatched action is among them and not at all otherwise, and a listener
\* subscribed without action names has been called exactly once.
C8_ListenerCalledOncePerDispatch ==
    DispatchReturned =>
        \A l \in ListenerSet :
            ListenerCount(l.id) = IF SubscribedFor(l, lastResult.name) THEN 1 ELSE 0

\* C8, amended: the above for the dispatches that emit their event
\* (emitEvent not false); a dispatch with emitEvent = false and a dispatch
\* that throws call no listener at all.
C8_ListenerFiltering ==
    /\ DispatchReturned =>
        \A l \in ListenerSet :
            ListenerCount(l.id) =
                IF lastResult.emit /\ SubscribedFor(l, lastResult.name) THEN 1 ELSE 0
    /\ (Idle /\ lastResult.op \in DispatchOps /\ lastResult.out = "threw")
        => ObsOf("listener") = {}

C8_Witness ==
    /\ DispatchReturned
    /\ lastResult.emit
    /\ \E l1, l2 \in ListenerSet :
        /\ l1.actionNames = {lastResult.name} /\ ListenerCount(l1.id) = 1
        /\ l2.actionNames # {} /\ lastResult.name \notin l2.actionNames
        /\ ListenerCount(l2.id) = 0

\* C9: listener failure isolation.  When a listener has thrown during the
\* delivery of an event, the failure of that listener is reported to
\* onActionListenerError, the committed state is already and stays the new
\* state, and when the call is over every listener that accepts the event
\* has been called and dispatch has returned the new state.
C9_ListenerFailureIsolation ==
    \A e \in ObsOf("onActionListenerError") :
        /\ e > 1 /\ trace[e - 1].k = "listener" /\ trace[e - 1].id = trace[e].id
        /\ state = trace[e].ev.newState
        /\ Idle => /\ lastResult.out = "returned"
                   /\ lastResult.val = state
                   /\ \A l \in ListenerSet :
                        SubscribedFor(l, trace[e].ev.actionName) => ListenerCount(l.id) = 1

C9_Witness ==
    /\ Idle
    /\ \E e \in ObsOf("onActionListenerError"), i \in ObsOf("listener") :
        /\ e < i
        /\ trace[e].id # trace[i].id

\* C10: commit precedes notification.  Whenever a listener is called for a
\* root event, scope.state is already event.newState, event.oldState is the
\* state that was committed before the dispatch, and event.newState is the
\* value that dispatch returns.
C10_CommitPrecedesNotification ==
    \A i \in ObsOf("listener") :
        /\ trace[i].seen = trace[i].ev.newState
        /\ ~Idle => SameValue(trace[i].ev.oldState, fold.s)
        /\ Idle => /\ lastResult.out = "returned"
                   /\ lastResult.val = trace[i].ev.newState

C10_Witness ==
    /\ Idle
    /\ \E i \in ObsOf("listener") : ~SameValue(trace[i].ev.oldState, trace[i].ev.newState)

\* C11: lock irreversibility.  Once the scope is locked it is locked in every
\* later state, whatever is called (lock() again included), and every
\* registerAction and registerMacro call made on the locked scope throws and
\* leaves the actions and the members of the scope as they were.
C11_LockedStep ==
    isLocked =>
        /\ isLocked'
        /\ (calls' # calls /\ lastResult'.op \in {"registerAction", "registerMacro"})
            => /\ lastResult'.out = "threw"
               /\ actions' = actions
               /\ members' = members

C12_RegistrationStep ==
    /\ (calls' # calls /\ lastResult'.op = "registerAction" /\ lastResult'.name \in tried)
        => /\ lastResult'.out = "threw"
           /\ actions' = actions
           /\ members' = members
    /\ \A i \in 1..Len(actions) : Len(actions') >= i /\ actions'[i] = actions[i]

C12_AtMostOneRegistration == [][C12_RegistrationStep]_vars

\* The second call for a name whose first call threw half-way (the action
\* stored, its subscription macro refused) has thrown in an unlocked scope.
C12_Witness ==
    /\ Idle
    /\ ~isLocked
    /\ lastResult.op = "registerAction"
    /\ lastResult.err = PlainError("Action name is duplicate or reserved in scope.")
    /\ HasAction(lastResult.name)
    /\ members[lastResult.name] # "dispatcher"

\* C13: reset/restore.  When a reset() call is over it has returned and the
\* committed state is the snapshot: the value of the last restore that
\* succeeded, or the construction-time initial state when there was none;
\* and when the calls before it were restore(v) and nothing but reset()
\* since, the committed state is v.
C13_ResetReturnsToSnapshot ==
    (Idle /\ lastResult.op = "reset") =>
        /\ lastResult.out = "returned"
        /\ SameValue(state, fold.init)
        /\ restored # NotRestored => SameValue(state, restored)

\* C19: lookup misses.  A dispatch, reset or restore call whose action name
\* is not registered throws an Error at once: the state and the in-progress
\* flag are as before, no frame was opened, and nothing was notified (no
\* listener, no DevTool hook).  A subscribe call given an action name that is
\* not registered throws and adds no listener.
C19_LookupMissStep ==
    /\ (calls' # calls /\ lastResult'.op \in DispatchOps /\ ~HasAction(lastResult'.name))
        => /\ lastResult'.out = "threw"
           /\ lastResult'.err.type = "Error"
           /\ state' = state
           /\ isActionInProgress' = isActionInProgress
           /\ stack' = stack
           /\ trace' = <<>>
    /\ (calls' # calls /\ lastResult'.op \in {"subscribe", "submacro"}
          /\ \E a \in lastResult'.names : ~HasAction(a))
        => /\ lastResult'.out = "threw"
           /\ listeners' = listeners
           /\ listenerIndex' = listenerIndex

C19_LookupMisses == [][C19_LookupMissStep]_vars

C19_Witness ==
    /\ Idle
    /\ lastResult.op = "dispatch"
    /\ ~HasAction(lastResult.name)
    /\ lastResult.err = PlainError("This action not exists")
    /\ Len(listeners) > 0
    /\ state # initState

\* C20: a dispatch call made while isActionDispatchAvailable is false - by
\* the application on a scope left in progress, or by the body of the action
\* being dispatched - throws: no action is invoked (no frame is opened, no
\* middleware wrapper entered) and the state is as before.
C20_DispatchCall ==
    \/ calls' # calls /\ lastResult'.op \in DispatchOps
    \/ ~Idle /\ Top.phase = "body" /\ BodyDispatches(Top.actionName) /\ Top.nested = "none"

C20_UnavailableStep ==
    (~isActionDispatchAvailable /\ C20_DispatchCall) =>
        /\ state' = state
        /\ Len(stack') = Len(stack)
        /\ IF Idle
           THEN lastResult'.out = "threw" /\ trace' = <<>>
           ELSE stack'[Len(stack)].nested = "threw" /\ trace' = trace

C20_DispatchUnavailableThrows == [][C20_UnavailableStep]_vars

C20_Witness ==
    /\ Idle
    /\ ~isActionDispatchAvailable
    /\ lastResult.op = "reset"
    /\ lastResult.err =
        PlainError("Now action dispatch not available. Other action spreads.")

\* C14: name uniqueness.  A createStore call with the name of a store that
\* is in the registry, and a createScope call with the name of a scope that
\* the store owns, throw and leave the registry as it was: every store, its
\* scopes with their state, actions and listeners, and the names.
C14_DuplicateNameStep ==
    /\ (lastResult'.op = "createStore" /\ Registered(lastResult'.store))
        => lastResult'.out = "threw" /\ stores' = stores
    /\ (lastResult'.op = "createScope" /\ OwnsScope(CalledStoreBefore, lastResult'.config.name))
        => lastResult'.out = "threw" /\ stores' = stores

C14_NameUniqueness == [][C14_DuplicateNameStep]_vars

C14_Witness ==
    /\ lastResult.op = "createScope"
    /\ lastResult.err = PlainError("Scope name must unique")
    /\ LET sc == OwnedScope(CalledStore, lastResult.config.name)
       IN  /\ sc.state = Num(1)
           /\ sc.initState = Num(0)
           /\ Len(sc.actions) = 3

\* C15: the lock of a store is transitive and final.  In every state a
\* locked store owns only locked scopes; a store that is locked stays in the
\* registry and stays locked, and every createScope call on it throws and
\* leaves it as it was.
C15_LockedStoreOwnsLockedScopes ==
    \A i \in 1..Len(stores) :
        stores[i].isFrozen => \A j \in 1..Len(stores[i].scopes) : stores[i].scopes[j].isFrozen

C15_LockedStoreStep ==
    \A i \in 1..Len(stores) :
        stores[i].isFrozen =>
            /\ Len(stores') >= i
            /\ stores'[i].name = stores[i].name
            /\ stores'[i].isFrozen
            /\ (lastResult'.op = "createScope" /\ lastResult'.store = stores[i].name)
                => lastResult'.out = "threw" /\ stores'[i] = stores[i]

C15_StoreLockTransitiveFinal ==
    [](C15_LockedStoreOwnsLockedScopes) /\ [][C15_LockedStoreStep]_vars

\* store.lock() has returned on a store with a scope that was unlocked
\* before (an action was registered in it) and is locked now.
C15_Witness ==
    /\ lastResult.op = "lock"
    /\ \E j \in 1..Len(CalledStore.scopes) :
        /\ Len(CalledStore.scopes[j].actions) = 3
        /\ CalledStore.scopes[j].isFrozen

\* C16: store.restore(states) handles every entry.  When the call is over
\* it has returned, every entry that names a scope of the store has restored
\* that scope (its state and its reset snapshot are the entry's value), and
\* every other entry is in the pending set with its value.
C16_RestoreHandlesEveryEntry ==
    lastResult.op = "restore" =>
        /\ lastResult.out = "returned"
        /\ \A k \in 1..Len(lastResult.states) :
            LET e == lastResult.states[k]
            IN  IF OwnsScope(CalledStore, e.name)
                THEN /\ OwnedScope(CalledStore, e.name).state = e.state
                     /\ OwnedScope(CalledStore, e.name).initState = e.state
                ELSE \E n \in 1..Len(CalledStore.statesToRestore) :
                        CalledStore.statesToRestore[n] = e

\* C17: a createScope call that returns has created, under the resolved
\* name, a scope whose state and reset snapshot are the pending state of that
\* name when useRestoredStateIfAvailable is set and there is one - and that
\* entry, and no other, has left the pending set - and are the configured
\* initState otherwise, with the pending set as it was.
C17_CreateScopeStep ==
    (lastResult'.op = "createScope" /\ lastResult'.out = "returned") =>
        LET before == CalledStoreBefore
            after == CalledStoreAfter
            config == lastResult'.config
            name == IF config.name = ""
                    THEN GeneratedName(before.scopeNameIndex + 1) ELSE config.name
            created == after.scopes[Len(after.scopes)]
            waiting == {k \in 1..Len(before.statesToRestore) :
                            before.statesToRestore[k].name = name}
        IN  /\ Len(after.scopes) = Len(before.scopes) + 1
            /\ created.name = name
            /\ IF lastResult'.use /\ waiting # {}
               THEN /\ \A k \in waiting :
                        /\ created.state = before.statesToRestore[k].state
                        /\ created.initState = before.statesToRestore[k].state
                    /\ after.statesToRestore =
                            SelectSeq(before.statesToRestore, LAMBDA e : e.name # name)
               ELSE /\ created.state = config.initState
                    /\ created.initState = config.initState
                    /\ after.statesToRestore = before.statesToRestore

C17_PendingStateConsumed == [][C17_CreateScopeStep]_vars

C17_Witness ==
    /\ lastResult.op = "createScope"
    /\ lastResult.out = "returned"
    /\ lastResult.use
    /\ lastResult.config.initState = Num(0)
    /\ OwnedScope(CalledStore, lastResult.config.name).state = Num(2)
    /\ CalledStore.statesToRestore = <<[name |-> "settings", state |-> Num(1)]>>

\* C18: store.reset() fans out to every owned scope.  When the call is over
\* it has returned and the state of every scope of the store is the reset
\* snapshot of that scope, whatever was dispatched on the scopes before.
C18_StoreResetResetsEveryScope ==
    lastResult.op = "reset" =>
        /\ lastResult.out = "returned"
        /\ \A j \in 1..Len(CalledStore.scopes) :
            SameValue(CalledStore.scopes[j].state, CalledStore.scopes[j].initState)

\* C21: unsubscribe(id) returns true exactly when a listener is registered
\* under id, and removes that listener and no other; the callable returned
\* by subscribe does the same with its listenerId; an id that has been
\* removed is never registered again, so a second unsubscribe of it returns
\* false; and a listener that is no longer registered is not invoked by any
\* later dispatch.
C21_UnsubscribeStep ==
    LET ids == {listeners[i].id : i \in 1..Len(listeners)}
        idsAfter == {listeners'[i].id : i \in 1..Len(listeners')}
    IN  /\ \A id \in 1..MaxListenerIds :
               (id <= listenerIndex /\ id \notin ids) => id \notin idsAfter
        /\ (calls' # calls /\ lastResult'.op \in {"unsubscribe", "unsubscribeCallback"}) =>
               /\ lastResult'.out = "returned"
               /\ lastResult'.val = (IF lastResult'.id \in ids THEN Num(1) ELSE Num(0))
               /\ idsAfter = ids \ {lastResult'.id}
               /\ \A i \in 1..Len(listeners') :
                      \E j \in 1..Len(listeners) : listeners[j] = listeners'[i]

C21_RemovedNeverInvoked ==
    \A i \in ObsOf("listener") : \E j \in 1..Len(listeners) : listeners[j].id = trace[i].id

C21_Unsubscribe == [](C21_RemovedNeverInvoked) /\ [][C21_UnsubscribeStep]_vars

\* The callable of listener 1 is called after listener 1 has been removed.
C21_Witness ==
    /\ Idle
    /\ lastResult.op = "unsubscribeCallback"
    /\ lastResult.id = 1
    /\ lastResult.val = Num(0)
    /\ listenerIndex >= 1

\* C22: a call of the dispatcher that registerAction(name, ...) returned
\* does what dispatch(name, props, emitEvent) does: it runs the action of
\* that name with those props, commits what the action returned and emits
\* the event of that action exactly when emitEvent is true.  The
\* transformer only decides what the dispatcher returns, transformer(result,
\* props); the committed state is the untransformed result.
C22_DispatcherIsDispatch ==
    lastResult.op \in {"dispatch", "dispatcher"} =>
        /\ ~Idle =>
              /\ stack[1].actionName = lastResult.name
              /\ stack[1].emitEvent = lastResult.emit
              /\ SameValue(stack[1].props, lastResult.props)
              /\ stack[1].isRootAction
        /\ (Idle /\ lastResult.out = "returned") =>
              /\ lastResult.val = state
              /\ (ObsOf("onAction") # {}) <=> lastResult.emit
              /\ \A i \in ObsOf("onAction") :
                    /\ trace[i].ev.actionName = lastResult.name
                    /\ SameValue(trace[i].ev.props, lastResult.props)
                    /\ trace[i].ev.newState = state
                    /\ SameValue(state, Body(lastResult.name, trace[i].ev.oldState,
                                             lastResult.props, initState, "returned").val)
              /\ lastResult.name = "setCounter" => SameValue(state, lastResult.props)
              /\ lastResult.ret =
                    IF lastResult.op = "dispatch" THEN NotDispatcher
                    ELSE IF lastResult.name = "setCounter"
                    THEN Num(state.v + lastResult.props.v + 10000)
                    ELSE state
        /\ (Idle /\ lastResult.out = "threw") => lastResult.ret = NotDispatcher

\* The dispatcher of setCounter, registered with the transformer, has set
\* the counter to 1 and a listener has received the event.
C22_Witness ==
    /\ Idle
    /\ lastResult.op = "dispatcher"
    /\ lastResult.name = "setCounter"
    /\ lastResult.out = "returned"
    /\ state = Num(1)
    /\ lastResult.ret = Num(10002)
    /\ ObsOf("listener") # {}

----------------------------------------------------------------------------
(* Vocabulary of the properties of the sync/async/compose variant *)

\* The dispatch records of the asynchronous scopes, composed ones included.
AsyncDispatches == {d \in 1..Len(dispatches) : heap[dispatches[d].scope].kind # "sync"}

\* The action of the dispatch d has been called.
Invoked(d) == dispatches[d].phase # "queued"

\* The action of d has been called and the handler of its result has not
\* run to its end.
InFlight(d) == dispatches[d].phase \in {"running", "resolved", "rejected"}

\* The handler of d's result has run to its end.
Completed(d) == dispatches[d].phase \in {"fulfilled", "failed"}

\* d1 was submitted before d2 to the same scope.
Earlier(d1, d2) == d1 < d2 /\ dispatches[d1].scope = dispatches[d2].scope

\* d1 is the last dispatch submitted before d2 to the same scope.
Predecessor(d1, d2) ==
    /\ Earlier(d1, d2)
    /\ \A d \in 1..Len(dispatches) : Earlier(d, d2) => d <= d1

\* C23: dispatches to the same asynchronous scope.  The action of a later
\* dispatch has been invoked only if the handler of every earlier one has
\* run to its end (so the actions are invoked in submission order), at most
\* one dispatch of a scope is in flight, and on a scope that is not composed
\* an invoked action has received the state its predecessor has committed:
\* the predecessor's new state if it was fulfilled, the state the
\* predecessor itself received if it failed, the initial state if there is
\* no predecessor.
C23_AsyncFifo ==
    /\ \A d1 \in AsyncDispatches, d2 \in AsyncDispatches :
            (Earlier(d1, d2) /\ Invoked(d2)) => Completed(d1)
    /\ \A d1 \in AsyncDispatches, d2 \in AsyncDispatches :
            (dispatches[d1].scope = dispatches[d2].scope /\ InFlight(d1) /\ InFlight(d2))
                => d1 = d2
    /\ \A d2 \in AsyncDispatches :
            (Invoked(d2) /\ heap[dispatches[d2].scope].kind = "async") =>
                /\ \A d1 \in AsyncDispatches : Predecessor(d1, d2) =>
                        dispatches[d2].oldState =
                            IF dispatches[d1].phase = "fulfilled"
                            THEN dispatches[d1].value ELSE dispatches[d1].oldState
                /\ (\A d1 \in AsyncDispatches : ~Earlier(d1, d2)) =>
                        dispatches[d2].oldState = InitStateOf(heap[dispatches[d2].scope].name)

\* A second dispatch was submitted to an asynchronous scope while the first,
\* setCounter(3), was pending; the first was fulfilled and the action of the
\* second has been called with 3.
C23_Witness ==
    \E d1 \in AsyncDispatches, d2 \in AsyncDispatches :
        /\ Predecessor(d1, d2)
        /\ heap[dispatches[d1].scope].kind = "async"
        /\ dispatches[d1].phase = "fulfilled"
        /\ dispatches[d1].value = Num(3)
        /\ Invoked(d2)
        /\ dispatches[d2].oldState = Num(3)

\* The scopes that a list given to composeScope supplies: the scopes in it
\* and those that its names have in the registry.
SuppliedScopes(list) ==
    {IF list[i].isName THEN scopes[list[i].name] ELSE list[i].id : i \in 1..Len(list)} \ {0}

\* C24: a call of composeScope with a list that supplies fewer than two
\* distinct scopes throws (the error about the length, when the name passes
\* and every name of the list has a scope), and it leaves every scope object
\* and the registry as they were: no composed scope is made, no scope is
\* locked or subscribed to.
C24_TooFewStep ==
    (lastResult'.op = "composeScope" /\ calls' # calls
        /\ Cardinality(SuppliedScopes(lastResult'.list)) < 2) =>
        /\ lastResult'.err # ""
        /\ lastResult'.scope = 0
        /\ heap' = heap
        /\ scopes' = scopes
        /\ (/\ lastResult'.name # "length"
            /\ \A i \in 1..Len(lastResult'.list) :
                    lastResult'.list[i].isName => scopes[lastResult'.list[i].name] # 0)
              => lastResult'.err = "Compose scopes length must be greater than one"

Composites(h) == {c \in 1..Len(h) : h[c].kind = "compose"}

MembersOf(h, c) == {h[c].scopes[i] : i \in 1..Len(h[c].scopes)}

ActionSet(h, id) == {h[id].actions[i] : i \in 1..Len(h[id].actions)}

\* C25: every composed scope and every member of one is locked, and the
\* actions of a composed scope are the union of the actions of its members
\* (which, being locked, are those of the time of the construction).
C25_LockedAndUnion ==
    \A c \in Composites(heap) :
        /\ heap[c].isFrozen
        /\ \A m \in MembersOf(heap, c) : heap[m].isFrozen
        /\ ActionSet(heap, c) = UNION {ActionSet(heap, m) : m \in MembersOf(heap, c)}
        /\ Len(heap[c].actions) = Cardinality(ActionSet(heap, c))

\* C25: registerAction on a composed scope or on a member of one throws and
\* adds no action.
C25_RegisterFailsStep ==
    (/\ lastResult'.op = "registerAction"
     /\ calls' # calls
     /\ \E c \in Composites(heap) :
            lastResult'.scope = c \/ lastResult'.scope \in MembersOf(heap, c)) =>
        /\ lastResult'.err = "This scope is locked you can't add new action."
        /\ heap' = heap

C25_ComposeLocks == [](C25_LockedAndUnion) /\ [][C25_RegisterFailsStep]_vars

\* A and B were composed, the composed scope has the actions setCounter and
\* noop, and registerAction("noop") on the member B, which has no such
\* action, has thrown because B is locked.
C25_Witness ==
    /\ lastResult.op = "registerAction"
    /\ lastResult.scope = 3
    /\ lastResult.name = "noop"
    /\ lastResult.err = "This scope is locked you can't add new action."
    /\ ~supports(heap, 3, "noop")
    /\ \E c \in Composites(heap) :
            /\ heap[c].scopes = <<2, 3>>
            /\ heap[c].actions = <<"setCounter", "noop">>

\* C26: the state of a composed scope is the mapping from the name of each
\* of its members to the current state of that member.
C26_CompositeState ==
    \A c \in Composites(heap) :
        /\ DOMAIN getState(heap, c) = {heap[m].name : m \in MembersOf(heap, c)}
        /\ \A m \in MembersOf(heap, c) : getState(heap, c)[heap[m].name] = getState(heap, m)

\* The dispatches that the action of the composed scope's dispatch d has
\* made on the member m.
MadeOn(d, m) == {e \in 1..Len(dispatches) : dispatches[e].by = d /\ dispatches[e].scope = m}

\* C27: once the action of a dispatch d on a composed scope has been called,
\* every member that supports the action has received exactly one dispatch
\* from it, of the same action with the same props, and a member that does
\* not support it has received none; the promise of d is resolved only when
\* each of these dispatches has been fulfilled, and it is resolved with the
\* state of the composed scope.
C27_CompositeDispatch ==
    \A d \in 1..Len(dispatches) :
        LET c == dispatches[d].scope
        IN  (heap[c].kind = "compose" /\ Invoked(d)) =>
                /\ \A m \in MembersOf(heap, c) :
                        /\ Cardinality(MadeOn(d, m)) =
                              IF dispatches[d].actionName \in ActionSet(heap, m) THEN 1 ELSE 0
                        /\ \A e \in MadeOn(d, m) :
                              /\ dispatches[e].actionName = dispatches[d].actionName
                              /\ dispatches[e].props = dispatches[d].props
                /\ dispatches[d].phase \in {"resolved", "fulfilled"} =>
                        \A m \in MembersOf(heap, c) : \A e \in MadeOn(d, m) :
                            dispatches[e].phase = "fulfilled"
                /\ (dispatches[d].phase = "resolved" /\ lastResult.op = "settle"
                        /\ lastResult.made = d) =>
                        dispatches[d].value = getState(heap, c)

\* C28: for every event that a member of a composed scope has emitted in
\* the last step, every listener of the composed scope was then called with
\* an event of the same scope name, action and props whose newState is the
\* state of the composed scope at that moment and whose oldState is that
\* state with the entry of the member replaced by the oldState of the
\* member's event.
C28_Republished ==
    \A i \in 1..Len(trace) :
        trace[i].k = "onAction" =>
            \A c \in Composites(heap) :
                trace[i].scope \in MembersOf(heap, c) =>
                    \A j \in 1..Len(heap[c].listeners) :
                        heap[c].listeners[j].kind = "app" =>
                            \E n \in (i + 1)..Len(trace) :
                                /\ trace[n].k = "listener"
                                /\ trace[n].scope = c
                                /\ trace[n].listener = j
                                /\ trace[n].ev.scopeName = trace[i].ev.scopeName
                                /\ trace[n].ev.actionName = trace[i].ev.actionName
                                /\ trace[n].ev.props = trace[i].ev.props
                                /\ trace[n].ev.newState = trace[n].seen
                                /\ trace[n].ev.oldState =
                                      [trace[n].seen EXCEPT ![trace[i].ev.scopeName] =
                                                                trace[i].ev.oldState]

\* C29: every composed scope is the scope that the registry has under its
\* name, and a call of createScope or composeScope that has succeeded has
\* made a scope whose name no other scope bears (with a name in use it
\* throws).
C29_Registered ==
    /\ \A c \in Composites(heap) : scopes[heap[c].name] = c
    /\ (lastResult.op \in {"createScope", "composeScope"} /\ lastResult.err = "") =>
            \A id \in 1..Len(heap) :
                heap[id].name = lastResult.name => id = lastResult.scope

\* The promise that dispatch has returned for d is settled: the handler of
\* .then has returned, or has thrown.
Settled(d) == dispatches[d].phase \in {"fulfilled", "failed", "aborted"}

\* C30: progress.  Every dispatch submitted to an asynchronous scope that is
\* not composed eventually has its action called and its promise settled,
\* whatever the listeners of the scope do.
C30_Progress ==
    \A d \in 1..MaxDispatches :
        (d <= Len(dispatches) /\ heap[dispatches[d].scope].kind = "async")
            ~> (d <= Len(dispatches) /\ Invoked(d) /\ Settled(d))

----------------------------------------------------------------------------
(* Properties of the canonical scope and of the stores, continued *)

\* C31: the action-error hook.  When a dispatch call is over and has thrown
\* the Scope Error of an action that threw, storeDevTool.onActionError has
\* been called exactly once during that call, with the very error that the
\* caller has caught; when a dispatch call has returned, it has not been
\* called at all; and at no moment of a call has it been called twice.
C31_ActionErrorReportedOnce ==
    /\ Cardinality(ObsOf("onActionError")) <= 1
    /\ DispatchFailed =>
            /\ Cardinality(ObsOf("onActionError")) = 1
            /\ \A i \in ObsOf("onActionError") : trace[i].err = lastResult.err
    /\ DispatchReturned => ObsOf("onActionError") = {}

C31_Witness ==
    /\ DispatchFailed
    /\ lastResult.name = "compound"
    /\ \E i \in ObsOf("onActionError") : trace[i].err.actionName = "compound"

\* The events handed to storeDevTool.onAction during the last call, in the
\* order of the calls of the hook.
OnActionEvents ==
    LET hooks == SelectSeq(trace, LAMBDA o : o.k = "onAction")
    IN  [i \in 1..Len(hooks) |-> hooks[i].ev]

WrappersEntered ==
    LET ws == SelectSeq(trace, LAMBDA o : o.k = "middleware")
    IN  [i \in 1..Len(ws) |-> ws[i].id]

\* C33: middleware call order.  The configured list is [m1, ..., mn] with
\* mi = i.  Every dispatch call that gets to call its action, whether the
\* action then returns or throws, enters the wrapper of m1 first, then the
\* one of m2, ..., then the one of mn, each once.
C33_MiddlewareOrder ==
    (lastResult.op \in DispatchOps /\ lastResult.err.type # "Error") =>
        /\ Len(WrappersEntered) = Len(middleware)
        /\ \A i \in 1..Len(WrappersEntered) : WrappersEntered[i] = i

C33_Witness ==
    /\ DispatchReturned
    /\ incs = 2
    /\ WrappersEntered = <<1, 2>>

\* C34: scope.context outside of dispatch.  Whenever no dispatch call is
\* executing on the scope - before the first call, and after every dispatch
\* call has returned or has thrown - scope.context is null.
C34_ContextNullWhenIdle == Idle => context = NullV

C34_Witness ==
    /\ DispatchReturned
    /\ lastResult.emit
    /\ ObsOf("listener") # {}
    /\ ~SameValue(state, fold.init)
    /\ context = NullV

\* The step is a call of a macro of the application / of a subscription
\* macro on<ActionName>.
MacroCalled == calls' # calls /\ lastResult'.op = "macro"

SubscriberMacroCalled == calls' # calls /\ lastResult'.op = "submacro"

\* C35 as stated: a call of a macro - one the application has registered or
\* a subscription macro that registerAction has registered - returns what
\* the macro gives for the state committed at the moment of the call, and
\* leaves the state, the actions and the listeners of the scope as they are.
C35_MacroStep ==
    /\ MacroCalled => lastResult'.val = macro(state, lastResult'.props)
    /\ (MacroCalled \/ SubscriberMacroCalled) =>
            /\ state' = state
            /\ actions' = actions
            /\ listeners' = listeners

C35_MacroCallsChangeNothing == [][C35_MacroStep]_vars

\* C35, amended: the above for the macros the application has registered;
\* a call of a subscription macro on<ActionName> leaves the state and the
\* actions as they are and adds one listener, subscribed for that action
\* alone, behind the listeners there are.
C35_AmendedStep ==
    /\ MacroCalled =>
            /\ lastResult'.val = macro(state, lastResult'.props)
            /\ state' = state
            /\ actions' = actions
            /\ listeners' = listeners
    /\ SubscriberMacroCalled =>
            /\ state' = state
            /\ actions' = actions
            /\ Len(listeners') = Len(listeners) + 1
            /\ SubSeq(listeners', 1, Len(listeners)) = listeners
            /\ listeners'[Len(listeners')].actionNames = lastResult'.names
            /\ Cardinality(lastResult'.names) = 1

C35_MacroReadsCurrentState == [][C35_AmendedStep]_vars

C35_Witness ==
    /\ Idle
    /\ lastResult.op = "macro"
    /\ lastResult.props = Num(2)
    /\ incs = 1
    /\ state = Num(1)
    /\ lastResult.val = Num(1)

\* The step is a call of registerMacro with a macro, on a scope that is not
\* locked.
MacroRegistrationTried ==
    /\ calls' # calls
    /\ lastResult'.op = "registerMacro"
    /\ ~isFrozen
    /\ lastResult'.err.reason # "Macro cannot be null or undefined."

\* The name denotes a getter / a setter of the scope: an accessor that a
\* macro has installed, or one that the class defines.
DenotesGetter(n) == members[n] \in {"getter", "getset", "proto"}

DenotesSetter(n) == members[n] \in {"setter", "getset"}

\* C36: name collisions of registerMacro.  A call of registerMacro with a
\* macro on a scope that is not locked throws exactly when
\*   the type is FUNCTION and the name denotes a member of the scope, or
\*   the type is GETTER and the name denotes a getter, or
\*   the type is SETTER and the name denotes a setter,
\* and a call that throws changes no member and no action and tells the
\* DevTool nothing.
C36_CollisionStep ==
    MacroRegistrationTried =>
        LET n == lastResult'.name
            t == lastResult'.macroType
            collides == \/ t = "FUNCTION" /\ InThis(n)
                        \/ t = "GETTER" /\ DenotesGetter(n)
                        \/ t = "SETTER" /\ DenotesSetter(n)
        IN  /\ lastResult'.out = "threw" <=> collides
            /\ lastResult'.out = "threw" =>
                    /\ members' = members
                    /\ actions' = actions
                    /\ trace' = <<>>

C36_MacroCollisions == [][C36_CollisionStep]_vars

\* C37: dispatch with emitEvent = false.  When a dispatch call made with
\* emitEvent = false has returned, it has returned the committed state,
\* which is the fold of the actions dispatched so far (what the action
\* returned for the state before the call); no listener and no onAction
\* hook was called during the call; and the scope is not in progress, with
\* a null context.
C37_SilentDispatch ==
    (DispatchReturned /\ ~lastResult.emit) =>
        /\ lastResult.val = state
        /\ SameValue(state, fold.s)
        /\ ObsOf("listener") = {}
        /\ ObsOf("onAction") = {}
        /\ isActionDispatchAvailable
        /\ context = NullV

C37_Witness ==
    /\ DispatchReturned
    /\ ~lastResult.emit
    /\ lastResult.name = "setCounter"
    /\ state = Num(1)
    /\ \E l \in ListenerSet : l.actionNames = {}

\* The names that are keys of the store's statesToRestore.
PendingNames(st) == {st.statesToRestore[i].name : i \in 1..Len(st.statesToRestore)}

\* C38: the pending-restore set holds payloads for scopes that do not exist.
\* In every state, no store of the registry has a name that is a key of
\* its statesToRestore and the name of one of its scopes.
C38_PendingOnlyForMissingScopes ==
    \A i \in 1..Len(stores) :
        \A n \in PendingNames(stores[i]) : ~OwnsScope(stores[i], n)

\* C39: registerAction is atomic on failure.  A call of registerAction that
\* throws leaves supportActions and the members of the scope as they were
\* and tells the DevTool nothing.
C39_FailedRegistrationStep ==
    (calls' # calls /\ lastResult'.op = "registerAction" /\ lastResult'.out = "threw") =>
        /\ supportActions' = supportActions
        /\ members' = members
        /\ trace' = <<>>

C39_RegisterActionAtomic == [][C39_FailedRegistrationStep]_vars

\* The calls of onActionListenerError during the last call that report a
\* dispatch which a listener made and which was turned away.
RejectedInListener ==
    {e \in ObsOf("onActionListenerError") :
        trace[e].err.reason \in {"This action not exists",
                                 "Now action dispatch not available. Other action spreads."}}

\* C40: a dispatch made by a listener during the fan-out is rejected.
\* During the whole delivery of the events isActionDispatchAvailable is
\* false.  When a listener has called dispatch on its scope during the
\* delivery, the call was turned away and its Error reported to
\* onActionListenerError right after the call of that listener, the
\* committed state is still the new state of the event, and when the root
\* call is over it has returned that state and every listener subscribed
\* for the event has been called once.
C40_ListenerDispatchRejected ==
    /\ (~Idle /\ Top.phase = "fanout") => ~isActionDispatchAvailable
    /\ \A e \in RejectedInListener :
        /\ e > 1 /\ trace[e - 1].k = "listener" /\ trace[e - 1].id = trace[e].id
        /\ trace[e].err.type = "ScopeError"
        /\ state = trace[e].ev.newState
        /\ Idle => /\ lastResult.out = "returned"
                   /\ lastResult.val = trace[e].ev.newState
                   /\ \A l \in ListenerSet :
                        SubscribedFor(l, trace[e].ev.actionName) => ListenerCount(l.id) = 1

C40_Witness ==
    /\ Idle
    /\ \E e \in RejectedInListener, i \in ObsOf("listener") :
        /\ e < i
        /\ trace[e].id # trace[i].id
        /\ trace[e].err.reason = "Now action dispatch not available. Other action spreads."

====
